---- MODULE Spec2Model ----
(***************************************************************************)
(* Skeleton editing core of mesh2motion: the edit-skeleton step            *)
(* (StepEditSkeleton), its undo/redo history, mirror mode and the          *)
(* snap-to-volume drag handler (SnapToVolumeHandler); and the BVH import:  *)
(* BVHImporter, StepImport, ImportBootstrap and SkeletonStorage.           *)
(*                                                                         *)
(* The operators that stand for UndoRedoSystem and Utility follow          *)
(* sections 4.2, 4.3 and 4.4 of the specification and are marked as such.  *)
(***************************************************************************)
EXTENDS Integers, Sequences, FiniteSets, TLC

VARIABLES
    threejs_skeleton,          \* StepEditSkeleton.threejs_skeleton.bones: sequence of bones
    skeleton_id,               \* which loaded skeleton instance threejs_skeleton is (0: none yet)
    original_bone_transforms,  \* StepEditSkeleton.original_bone_transforms (<<>> stands for null)
    undo_stack,                \* UndoRedoSystem: undo history, oldest first
    redo_stack,                \* UndoRedoSystem: redo history, oldest first
    mirror_mode_enabled,       \* StepEditSkeleton.mirror_mode_enabled
    currently_selected_bone,   \* StepEditSkeleton.currently_selected_bone: bone index, 0 for null
    is_dragging,               \* SnapToVolumeHandler.is_dragging
    controls_enabled,          \* OrbitControls.enabled
    last,                      \* the last handler that ran, what it returned, the events it dispatched
    edits,                     \* number of stores and transform mutations so far
    script,                    \* position in the scripted store/mutate/undo run (History spec)
    drag_log,                  \* the snap drag in progress or just ended: the pose and history size at its mouse-down
    import_calls,              \* number of BVH imports started so far; numbers the objects an import creates
    step_import,               \* StepImport: its fields, the controls it writes, the preview in its scene
    import_bootstrap,          \* ImportBootstrap: currentPreviewArmature, the preview in its scene, its page
    skeleton_storage,          \* SkeletonStorage: the localStorage item and the skeleton cache
    handlers,                  \* the calls of handleBVHImport made so far, each with the await it is at
    ui                         \* StepEditSkeleton: _added_event_listeners, the listeners it registered, the undo and redo buttons

\* the state of the edit-skeleton step and of the import pages
edit_vars == << threejs_skeleton, skeleton_id, original_bone_transforms, undo_stack,
                redo_stack, mirror_mode_enabled, currently_selected_bone, is_dragging,
                controls_enabled, edits, script, drag_log, ui >>
import_vars == << import_calls, step_import, import_bootstrap, skeleton_storage,
                  handlers >>

vars == << edit_vars, last, import_vars >>

----------------------------------------------------------------------------
(* Bounds of the model *)

\* stores and transform mutations explored in one run of Spec
MaxEdits == 2
\* skeletons loaded in one run of Spec
MaxLoads == 2
\* store/mutate steps of the scripted run: one more than fits the history
MaxScript == 52
\* store/mutate steps of the scripted run whose mutation is arbitrary
FreeScript == 1
\* begin() calls of the edit-skeleton step explored in one run of Buttons
MaxBegins == 2
\* BVH imports started in one run of Import
MaxImports == 3

\* how many calls of handleBVHImport can be awaiting at once
MaxHandlers == 2

----------------------------------------------------------------------------
(* Program constants *)

\* new UndoRedoSystem(50)
max_history_one_more == 50 + 1
max_history == 50

----------------------------------------------------------------------------
(* Vectors, bones and the armatures that can be loaded *)

V3(x, y, z) == << x, y, z >>

\* Vector3(0, 0, 0), the argument of position.set in the move-to-origin handler
Origin == V3(0, 0, 0)

\* a bone as the model sees it: name (a sequence of name parts), index of the
\* parent bone (0: the parent is the armature), local position, rotation, scale
NewBone(name, parent, position) ==
    [ name |-> name, parent |-> parent, position |-> position,
      rotation |-> V3(0, 0, 0), scale |-> V3(1, 1, 1) ]

\* the armatures handed to load_original_armature_from_model
ArmatureBones(k) ==
    IF k = 1
    THEN << NewBone(<< "root" >>, 0, V3(0, 1, 0)),
            NewBone(<< "Spine" >>, 1, V3(0, 2, 0)),
            NewBone(<< "Left", "Arm" >>, 2, V3(1, 2, 0)),
            NewBone(<< "Right", "Arm" >>, 2, V3(-1, 2, 0)) >>
    ELSE << NewBone(<< "Hips" >>, 0, V3(0, 3, 0)),
            NewBone(<< "mixamorig_", "Spine" >>, 1, V3(0, 1, 0)),
            NewBone(<< "mixamorig_", "Arm", "_L" >>, 2, V3(2, 1, 0)),
            NewBone(<< "mixamorig_", "Arm", "_R" >>, 2, V3(-2, 1, 0)) >>

Armatures == 1 .. 2

\* local positions a transform-control edit can produce
Positions == { V3(1, 1, 0) }

\* local positions a snap can produce (the volume center, in the parent's space)
SnapTargets == { V3(-2, 2, 1) }

\* rotations (Euler angles, in quarter turns) an edit can produce
Rotations == { V3(1, 2, 3) }

\* scales an edit can produce
Scales == { V3(2, 2, 2) }

BoneIndices == 1 .. Len(threejs_skeleton)

----------------------------------------------------------------------------
(* Utility (specification 4.2, 4.4): snapshots and bone base names *)

\* lower-casing of a name part
ToLower(part) ==
    CASE part = "Left" -> "left"
      [] part = "Right" -> "right"
      [] part = "_L" -> "_l"
      [] part = "_R" -> "_r"
      [] part = "Mixamorig_" -> "mixamorig_"
      [] part = "Arm" -> "arm"
      [] part = "Spine" -> "spine"
      [] part = "Hips" -> "hips"
      [] OTHER -> part

\* the left/right markers and the vendor prefix that are stripped from a name
SideMarkers == { "left", "right", "_l", "_r" }
VendorPrefixes == { "mixamorig_" }

IsStripped(part) == ToLower(part) \in SideMarkers \cup VendorPrefixes

\* Utility.calculate_bone_base_name: the name without its left/right markers
\* and vendor prefix, which are matched without regard to case
calculate_bone_base_name(name) ==
    SelectSeq(name, LAMBDA part : ~IsStripped(part))

\* Utility.store_bone_transforms: a copy of every bone's local transform, keyed
\* by the bone's name, in skeleton order
store_bone_transforms(bones) ==
    [ i \in 1 .. Len(bones) |->
        [ name |-> bones[i].name, position |-> bones[i].position,
          rotation |-> bones[i].rotation, scale |-> bones[i].scale ] ]

\* the entry of a snapshot for a bone name: 0 when the snapshot has none
StateIndexOf(states, name) ==
    LET m == { j \in 1 .. Len(states) : states[j].name = name }
    IN  IF m = {} THEN 0 ELSE CHOOSE j \in m : \A k \in m : j <= k

\* a faulty restore, which looks a bone's entry up by base name, so that the
\* two bones of a mirror pair both get the entry of the first
restore_bone_transforms_by_base_name(bones, states) ==
    [ i \in 1 .. Len(bones) |->
        LET m == { j \in 1 .. Len(states) :
                     calculate_bone_base_name(states[j].name)
                       = calculate_bone_base_name(bones[i].name) }
        IN  IF m = {} THEN bones[i]
            ELSE LET j == CHOOSE j \in m : \A k \in m : j <= k
                 IN  [ bones[i] EXCEPT !.position = states[j].position,
                                       !.rotation = states[j].rotation,
                                       !.scale = states[j].scale ] ]

\* Utility.restore_bone_transforms: every bone the snapshot has an entry for
\* gets the snapshot's transform, the other bones are left untouched
restore_bone_transforms(bones, states) ==
    [ i \in 1 .. Len(bones) |->
        LET j == StateIndexOf(states, bones[i].name)
        IN  IF j = 0 THEN bones[i]
            ELSE [ bones[i] EXCEPT !.position = states[j].position,
                                   !.rotation = states[j].rotation,
                                   !.scale = states[j].scale ] ]

----------------------------------------------------------------------------
(* UndoRedoSystem (specification 4.3) *)

\* an entry of the history: the transforms captured, and the skeleton instance
\* they were captured from
Capture(bones, id) == [ skeleton |-> id, transforms |-> store_bone_transforms(bones) ]

\* push onto a history stack, evicting the oldest entry over capacity
PushBounded(stack, entry) ==
    LET pushed == Append(stack, entry)
    IN  IF Len(pushed) > max_history THEN Tail(pushed) ELSE pushed

Top(stack) == stack[Len(stack)]
Pop(stack) == SubSeq(stack, 1, Len(stack) - 1)

can_undo(undo_states) == Len(undo_states) > 0
can_redo(redo_states) == Len(redo_states) > 0

\* UndoRedoSystem.store_current_state: capture onto the undo stack, clear redo
store_current_state(bones, id, undo_states, redo_states) ==
    [ undo |-> PushBounded(undo_states, Capture(bones, id)), redo |-> << >> ]

\* UndoRedoSystem.undo: false on an empty undo stack; otherwise the current
\* state goes onto the redo stack and the newest undo entry is restored
undo(bones, id, undo_states, redo_states) ==
    IF ~can_undo(undo_states)
    THEN [ ok |-> FALSE, bones |-> bones, undo |-> undo_states, redo |-> redo_states ]
    ELSE [ ok |-> TRUE,
           bones |-> restore_bone_transforms(bones, Top(undo_states).transforms),
           undo |-> Pop(undo_states),
           redo |-> Append(redo_states, Capture(bones, id)) ]

\* UndoRedoSystem.redo: symmetric
redo(bones, id, undo_states, redo_states) ==
    IF ~can_redo(redo_states)
    THEN [ ok |-> FALSE, bones |-> bones, undo |-> undo_states, redo |-> redo_states ]
    ELSE [ ok |-> TRUE,
           bones |-> restore_bone_transforms(bones, Top(redo_states).transforms),
           undo |-> Append(undo_states, Capture(bones, id)),
           redo |-> Pop(redo_states) ]

\* UndoRedoSystem.clear_history: both stacks emptied
clear_history == [ undo |-> << >>, redo |-> << >> ]

\* UndoRedoSystem.set_skeleton: the history of the skeleton managed before
\* is dropped when a new skeleton is handed over
set_skeleton == clear_history

----------------------------------------------------------------------------
(* StepEditSkeleton *)

\* the page of the edit-skeleton step as the constructor finds it: no
\* listener registered yet, the buttons as the markup has them, the detail
\* of the last 'undoRedoStateChanged' notification (none yet) and the number
\* of begin() calls so far
NoDetail == << >>
NewUI ==
    [ added_event_listeners |-> FALSE,
      undo_click_listeners |-> 0, redo_click_listeners |-> 0,
      state_changed_listeners |-> 0, begins |-> 0,
      dom_undo_button_disabled |-> "markup", dom_redo_button_disabled |-> "markup",
      notified |-> NoDetail ]

\* a boolean as the value of a DOM property
Property(b) == IF b THEN "true" ELSE "false"

\* a faulty update, which disables a button when its operation is possible
update_undo_redo_button_states_disabling_what_can_be_done(page, canUndo, canRedo) ==
    [ page EXCEPT !.dom_undo_button_disabled = Property(canUndo),
                  !.dom_redo_button_disabled = Property(canRedo) ]

\* update_undo_redo_button_states(can_undo, can_redo)
update_undo_redo_button_states(page, canUndo, canRedo) ==
    [ page EXCEPT !.dom_undo_button_disabled = Property(~canUndo),
                  !.dom_redo_button_disabled = Property(~canRedo) ]

\* UndoRedoSystem dispatching 'undoRedoStateChanged' with the flags of its
\* stacks as detail: every listener registered for it runs (they all call
\* update_undo_redo_button_states with the detail)
dispatch_state_change_event(page, undo_states, redo_states) ==
    LET detail == [ canUndo |-> can_undo(undo_states),
                    canRedo |-> can_redo(redo_states) ]
        notified == [ page EXCEPT !.notified = << detail >> ]
    IN  IF page.state_changed_listeners > 0
        THEN update_undo_redo_button_states(notified, detail.canUndo, detail.canRedo)
        ELSE notified

\* what a handler leaves behind for an observer: its name, its argument
\* (with the sizes of the history stacks a store, a clear or a load found),
\* the value it returned (<< >> for void), the events it dispatched and the
\* dialogs it showed
Ran(op, arg, returned, events) ==
    [ op |-> op, arg |-> arg, returned |-> returned, events |-> events ]

\* a faulty store, which forgets to call the history
store_bone_state_for_undo_skipped(bones, id, undo_states, redo_states) ==
    [ undo |-> undo_states, redo |-> redo_states ]

\* a faulty store, which captures the state and leaves the redo stack alone
store_bone_state_for_undo_keeping_redo(bones, id, undo_states, redo_states) ==
    [ undo |-> store_current_state(bones, id, undo_states, redo_states).undo,
      redo |-> redo_states ]

\* store_bone_state_for_undo
store_bone_state_for_undo(bones, id, undo_states, redo_states) ==
    store_current_state(bones, id, undo_states, redo_states)

\* a faulty undo, which dispatches 'skeletonTransformed' whatever the result
undo_bone_transformation_always_dispatching(bones, id, undo_states, redo_states) ==
    LET result == undo(bones, id, undo_states, redo_states)
    IN  [ result |-> result.ok, bones |-> result.bones, undo |-> result.undo,
          redo |-> result.redo, events |-> << "skeletonTransformed" >> ]

\* a faulty undo, which restores the first bone that had changed and leaves
\* the other bones as they are
undo_bone_transformation_of_one_bone(bones, id, undo_states, redo_states) ==
    LET result == undo(bones, id, undo_states, redo_states)
        changed == { i \in 1 .. Len(bones) : result.bones[i] # bones[i] }
        first == CHOOSE i \in changed : \A k \in changed : i <= k
    IN  [ result |-> result.ok,
          bones |-> IF changed = { } THEN bones
                    ELSE [ bones EXCEPT ![first] = result.bones[first] ],
          undo |-> result.undo, redo |-> result.redo,
          events |-> IF result.ok THEN << "skeletonTransformed" >> ELSE << >> ]

\* undo_bone_transformation
undo_bone_transformation(bones, id, undo_states, redo_states) ==
    LET result == undo(bones, id, undo_states, redo_states)
    IN  [ result |-> result.ok, bones |-> result.bones, undo |-> result.undo,
          redo |-> result.redo,
          events |-> IF result.ok THEN << "skeletonTransformed" >> ELSE << >> ]

\* a faulty redo, which restores the redo entry and leaves the stacks alone
redo_bone_transformation_keeping_stacks(bones, id, undo_states, redo_states) ==
    LET result == redo(bones, id, undo_states, redo_states)
    IN  [ result |-> result.ok, bones |-> result.bones, undo |-> undo_states,
          redo |-> redo_states,
          events |-> IF result.ok THEN << "skeletonTransformed" >> ELSE << >> ]

\* redo_bone_transformation
redo_bone_transformation(bones, id, undo_states, redo_states) ==
    LET result == redo(bones, id, undo_states, redo_states)
    IN  [ result |-> result.ok, bones |-> result.bones, undo |-> result.undo,
          redo |-> result.redo,
          events |-> IF result.ok THEN << "skeletonTransformed" >> ELSE << >> ]

\* a faulty clear, which empties the undo stack only
clear_undo_history_keeping_redo(undo_states, redo_states) ==
    [ undo |-> << >>, redo |-> redo_states ]

\* clear_undo_history
clear_undo_history(undo_states, redo_states) == clear_history

\* a faulty load, which does not hand the new skeleton to the history
load_original_armature_from_model_keeping_history(k, undo_states, redo_states) ==
    [ bones |-> ArmatureBones(k),
      undo |-> undo_states, redo |-> redo_states,
      original |-> store_bone_transforms(ArmatureBones(k)) ]

\* a faulty load, which does not capture the rest pose
load_original_armature_from_model_without_the_rest_pose(k, undo_states, redo_states) ==
    [ bones |-> ArmatureBones(k),
      undo |-> set_skeleton.undo, redo |-> set_skeleton.redo,
      original |-> << >> ]

\* load_original_armature_from_model: clone the armature, build the skeleton,
\* hand it to the history, keep the rest pose
load_original_armature_from_model(k, undo_states, redo_states) ==
    [ bones |-> ArmatureBones(k),
      undo |-> set_skeleton.undo, redo |-> set_skeleton.redo,
      original |-> store_bone_transforms(ArmatureBones(k)) ]

\* a faulty search, which takes any bone with another name for the counterpart
MirrorBoneOf_ignoring_base_name(bones, selected_name) ==
    LET m == { i \in 1 .. Len(bones) : bones[i].name # selected_name }
    IN  IF m = {} THEN 0 ELSE CHOOSE i \in m : \A k \in m : k <= i

\* the bone apply_mirror_mode picks: the last bone of the skeleton with the
\* selected bone's base name and another name; 0 when there is none
MirrorBoneOf(bones, selected_name) ==
    LET m == { i \in 1 .. Len(bones) :
                 /\ calculate_bone_base_name(bones[i].name)
                      = calculate_bone_base_name(selected_name)
                 /\ bones[i].name # selected_name }
    IN  IF m = {} THEN 0 ELSE CHOOSE i \in m : \A k \in m : k <= i

\* a faulty mirror, which negates the x angle instead of the y and z angles
apply_mirror_mode_negating_x(bones, selected_bone, transform_type) ==
    LET mirror_bone == MirrorBoneOf(bones, selected_bone.name)
        position == selected_bone.position
        rotation == selected_bone.rotation
    IN  IF mirror_bone = 0 THEN bones
        ELSE IF transform_type = "translate"
        THEN [ bones EXCEPT ![mirror_bone].position =
                              V3(-position[1], position[2], position[3]) ]
        ELSE IF transform_type = "rotate"
        THEN [ bones EXCEPT ![mirror_bone].rotation =
                              V3(-rotation[1], rotation[2], rotation[3]) ]
        ELSE bones

\* a faulty mirror, which copies the position without negating x
apply_mirror_mode_copying(bones, selected_bone, transform_type) ==
    LET mirror_bone == MirrorBoneOf(bones, selected_bone.name)
    IN  IF mirror_bone = 0 THEN bones
        ELSE [ bones EXCEPT ![mirror_bone].position = selected_bone.position ]

\* a faulty mirror, which writes to every bone that shares the base name
apply_mirror_mode_onto_every_counterpart(bones, selected_bone, transform_type) ==
    LET position == selected_bone.position
        rotation == selected_bone.rotation
        mirrored(i) ==
          /\ calculate_bone_base_name(bones[i].name)
               = calculate_bone_base_name(selected_bone.name)
          /\ bones[i].name # selected_bone.name
    IN  [ i \in 1 .. Len(bones) |->
            IF ~mirrored(i) THEN bones[i]
            ELSE IF transform_type = "translate"
            THEN [ bones[i] EXCEPT !.position =
                                     V3(-position[1], position[2], position[3]) ]
            ELSE [ bones[i] EXCEPT !.rotation =
                                     V3(rotation[1], -rotation[2], -rotation[3]) ] ]

\* apply_mirror_mode: selected_bone is the Bone handed in (its name and local
\* transform), bones the skeleton searched for its counterpart. A bone's
\* rotation is the Euler triple (x, y, z) of its orientation, so that
\* quaternion.setFromEuler(e) is the writing of e.
apply_mirror_mode(bones, selected_bone, transform_type) ==
    LET mirror_bone == MirrorBoneOf(bones, selected_bone.name)
        position == selected_bone.position
        rotation == selected_bone.rotation
    IN  IF mirror_bone = 0 THEN bones
        ELSE IF transform_type = "translate"
        THEN [ bones EXCEPT ![mirror_bone].position =
                              V3(-position[1], position[2], position[3]) ]
        ELSE IF transform_type = "rotate"
        THEN [ bones EXCEPT ![mirror_bone].rotation =
                              V3(rotation[1], -rotation[2], -rotation[3]) ]
        ELSE bones

\* the click handler of the move-to-origin button
move_to_origin(bones, id, undo_states, redo_states) ==
    [ bones |-> [ bones EXCEPT ![1].position = Origin ],
      undo |-> undo_states, redo |-> redo_states ]

\* add_event_listeners(): one more listener on the undo button, on the redo
\* button and on the undo/redo system
add_event_listeners(page) ==
    [ page EXCEPT !.undo_click_listeners = @ + 1,
                  !.redo_click_listeners = @ + 1,
                  !.state_changed_listeners = @ + 1 ]

\* remove_event_listeners(): removeEventListener is handed a function made
\* for the call, which is none of the registered listeners, and removes none
remove_event_listeners(page) == page

\* a faulty begin, which adds the listeners whenever it is called
StepEditSkeleton_begin_adding_listeners_every_time(page, undo_states, redo_states) ==
    update_undo_redo_button_states(
      [ add_event_listeners(page) EXCEPT !.added_event_listeners = TRUE ],
      can_undo(undo_states), can_redo(redo_states))

\* StepEditSkeleton.begin(): the listeners are added the first time, the
\* buttons are set from the history every time
StepEditSkeleton_begin(page, undo_states, redo_states) ==
    update_undo_redo_button_states(
      IF ~page.added_event_listeners
      THEN [ add_event_listeners(page) EXCEPT !.added_event_listeners = TRUE ]
      ELSE page,
      can_undo(undo_states), can_redo(redo_states))

\* cleanup_on_exit_step(), as far as the listeners and the buttons go
cleanup_on_exit_step(page) == remove_event_listeners(page)

\* one listener of the undo (redo) button running on a click: it calls
\* undo_bone_transformation (redo_bone_transformation); run is what the click
\* has done so far
ClickListener(button, run, id) ==
    LET r == IF button = "undo"
             THEN undo_bone_transformation(run.bones, id, run.undo, run.redo)
             ELSE redo_bone_transformation(run.bones, id, run.undo, run.redo)
    IN  [ bones |-> r.bones, undo |-> r.undo, redo |-> r.redo,
          page |-> IF r.result
                   THEN dispatch_state_change_event(run.page, r.undo, r.redo)
                   ELSE run.page,
          results |-> Append(run.results, r.result),
          events |-> run.events \o r.events ]

\* a click on a button: the first n of its registered listeners run, one after
\* the other
RECURSIVE Click(_, _, _, _)
Click(button, run, id, n) ==
    IF n = 0 THEN run ELSE ClickListener(button, Click(button, run, id, n - 1), id)

----------------------------------------------------------------------------
(* Rest-pose correction solver (get_rest_pose_rotation_corrections)         *)
(*                                                                          *)
(* Vectors are integer triples. A direction is kept without normalising it: *)
(* two vectors stand for the same unit vector when one is a positive        *)
(* multiple of the other. A rest rotation is the basis makeBasis is given,  *)
(* kept as the directions of its y and z axes (x is their cross product).   *)

Dot(a, b) == a[1] * b[1] + a[2] * b[2] + a[3] * b[3]
Cross(a, b) ==
    V3(a[2] * b[3] - a[3] * b[2], a[3] * b[1] - a[1] * b[3], a[1] * b[2] - a[2] * b[1])
Add(a, b) == V3(a[1] + b[1], a[2] + b[2], a[3] + b[3])
Sub(a, b) == V3(a[1] - b[1], a[2] - b[2], a[3] - b[3])
Times(k, a) == V3(k * a[1], k * a[2], k * a[3])
LengthSq(a) == Dot(a, a)

\* cosine and sine of an angle given in quarter turns
Cos(k) == CASE k % 4 = 0 -> 1 [] k % 4 = 2 -> -1 [] OTHER -> 0
Sin(k) == CASE k % 4 = 1 -> 1 [] k % 4 = 3 -> -1 [] OTHER -> 0

\* 3x3 matrices, as triples of rows
MatVec(m, v) == V3(Dot(m[1], v), Dot(m[2], v), Dot(m[3], v))
Column(m, j) == V3(m[1][j], m[2][j], m[3][j])
MatMul(a, b) ==
    << V3(Dot(a[1], Column(b, 1)), Dot(a[1], Column(b, 2)), Dot(a[1], Column(b, 3))),
       V3(Dot(a[2], Column(b, 1)), Dot(a[2], Column(b, 2)), Dot(a[2], Column(b, 3))),
       V3(Dot(a[3], Column(b, 1)), Dot(a[3], Column(b, 2)), Dot(a[3], Column(b, 3))) >>
Identity3 == << V3(1, 0, 0), V3(0, 1, 0), V3(0, 0, 1) >>

\* the rotation matrix of Euler angles in the order XYZ, and the scale matrix
RotationMatrix(e) ==
    MatMul(MatMul(<< V3(1, 0, 0), V3(0, Cos(e[1]), -Sin(e[1])), V3(0, Sin(e[1]), Cos(e[1])) >>,
                  << V3(Cos(e[2]), 0, Sin(e[2])), V3(0, 1, 0), V3(-Sin(e[2]), 0, Cos(e[2])) >>),
           << V3(Cos(e[3]), -Sin(e[3]), 0), V3(Sin(e[3]), Cos(e[3]), 0), V3(0, 0, 1) >>)
ScaleMatrix(k) == << V3(k[1], 0, 0), V3(0, k[2], 0), V3(0, 0, k[3]) >>

\* bone.updateWorldMatrix(true, true) for every bone: the world matrix of
\* each of the first n bones, as the rotation and scale it applies and the
\* world position of the bone; a parent comes before its children in a
\* skeleton, and the armature (parent 0) is not transformed
RECURSIVE updateWorldMatrix(_, _)
updateWorldMatrix(bones, n) ==
    IF n = 0 THEN << >>
    ELSE LET done == updateWorldMatrix(bones, n - 1)
             parent == bones[n].parent
             linear == IF parent = 0 THEN Identity3 ELSE done[parent].linear
             origin == IF parent = 0 THEN Origin ELSE done[parent].position
         IN  Append(done,
                    [ linear |-> MatMul(linear,
                                        MatMul(RotationMatrix(bones[n].rotation),
                                               ScaleMatrix(bones[n].scale))),
                      position |-> Add(origin, MatVec(linear, bones[n].position)) ])

\* Utility.world_position_from_object: the position of a bone in world space,
\* read from its world matrix
world_position_from_object(world, i) ==
    IF i = 0 THEN Origin ELSE world[i].position

\* String.prototype.includes on names that are sequences of parts
Includes(name, part_names) ==
    \E k \in 0 .. Len(name) - Len(part_names) :
      SubSeq(name, k + 1, k + Len(part_names)) = part_names

\* find_bone(names): the first bone whose lower-cased name is or includes one
\* of the names; 0 when there is none
find_bone(bones, names) ==
    LET m == { i \in 1 .. Len(bones) :
                 \E name \in names :
                   Includes([ k \in 1 .. Len(bones[i].name) |-> ToLower(bones[i].name[k]) ],
                            name) }
    IN  IF m = {} THEN 0 ELSE CHOOSE i \in m : \A k \in m : i <= k

\* compute_forward_vector: the direction of the cross product of the
\* left-to-right axis and the up axis of the skeleton
compute_forward_vector(bones, world) ==
    LET hips == find_bone(bones, { << "hips" >>, << "pelvis" >> })
        spine == find_bone(bones, { << "spine" >>, << "spine1" >>, << "spine2" >>,
                                    << "lowerback" >> })
        left_leg == find_bone(bones, { << "left", "up", "leg" >>, << "lhip" >>,
                                       << "left", "hip" >>, << "lhipjoint" >> })
        right_leg == find_bone(bones, { << "right", "up", "leg" >>, << "rhip" >>,
                                        << "right", "hip" >>, << "rhipjoint" >> })
        left_arm == find_bone(bones, { << "left", "arm" >>, << "left", "shoulder" >> })
        right_arm == find_bone(bones, { << "right", "arm" >>, << "right", "shoulder" >> })
        up_dir == Sub(world_position_from_object(world, spine),
                      world_position_from_object(world, hips))
        up == IF hips # 0 /\ spine # 0 /\ LengthSq(up_dir) > 0
              THEN up_dir ELSE V3(0, 1, 0)
        legs == Sub(world_position_from_object(world, right_leg),
                    world_position_from_object(world, left_leg))
        arms == Sub(world_position_from_object(world, right_arm),
                    world_position_from_object(world, left_arm))
        left_right ==
          IF left_leg # 0 /\ right_leg # 0
          THEN IF LengthSq(legs) > 0 THEN legs ELSE V3(1, 0, 0)
          ELSE IF left_arm # 0 /\ right_arm # 0 /\ LengthSq(arms) > 0
          THEN arms ELSE V3(1, 0, 0)
        forward == Cross(left_right, up)
    IN  IF LengthSq(forward) = 0 THEN V3(0, 0, 1) ELSE forward

\* no rest rotation (null), and the rest rotation with the given axes
NoRotation == [ defined |-> FALSE, y |-> Origin, z |-> Origin ]
Rotation(y_axis, z_axis) == [ defined |-> TRUE, y |-> y_axis, z |-> z_axis ]

\* a faulty compute_rest_rotation, which gives a bone whose child is at its
\* own position the rest rotation of a bone pointing along x
compute_rest_rotation_of_a_coinciding_child(bones, world, i, forward) ==
    LET children == { j \in 1 .. Len(bones) : bones[j].parent = i }
        child == IF children = {} THEN 0
                 ELSE CHOOSE j \in children : \A k \in children : j <= k
        direction == Sub(world_position_from_object(world, child),
                         world_position_from_object(world, i))
        y_axis == IF LengthSq(direction) = 0 THEN V3(1, 0, 0) ELSE direction
    IN  IF child = 0 THEN NoRotation
        ELSE Rotation(y_axis, Cross(Cross(y_axis, V3(0, 1, 1)), y_axis))

\* compute_rest_rotation(bone, forward): the basis whose y axis points from
\* the bone to its first child bone and whose z axis is the forward vector
\* made orthogonal to it; null for a bone without a child bone or with its
\* child at its own position
compute_rest_rotation(bones, world, i, forward) ==
    LET children == { j \in 1 .. Len(bones) : bones[j].parent = i }
        child == IF children = {} THEN 0
                 ELSE CHOOSE j \in children : \A k \in children : j <= k
        bone_position == world_position_from_object(world, i)
        y_axis == Sub(world_position_from_object(world, child), bone_position)
        projected == Sub(Times(LengthSq(y_axis), forward),
                         Times(Dot(forward, y_axis), y_axis))
        parent_dir == Sub(bone_position,
                          world_position_from_object(world, bones[i].parent))
        from_parent == IF LengthSq(projected) = 0 /\ bones[i].parent # 0
                       THEN Cross(parent_dir, y_axis) ELSE projected
        fallback_axis == IF 10000 * y_axis[2] * y_axis[2] < 9801 * LengthSq(y_axis)
                         THEN V3(0, 1, 0) ELSE V3(1, 0, 0)
        z_axis == IF LengthSq(from_parent) = 0
                  THEN Cross(fallback_axis, y_axis) ELSE from_parent
        x_axis == Cross(y_axis, z_axis)
    IN  IF child = 0 THEN NoRotation
        ELSE IF LengthSq(y_axis) = 0 THEN NoRotation
        ELSE Rotation(y_axis, Cross(x_axis, y_axis))

\* two vectors of the same direction
SameDirection(a, b) == Cross(a, b) = Origin /\ Dot(a, b) > 0

\* the greatest common divisor of two naturals
RECURSIVE Gcd(_, _)
Gcd(a, b) == IF b = 0 THEN a ELSE Gcd(b, a % b)

Abs(a) == IF a < 0 THEN -a ELSE a

\* normalize(): the representative of the direction of a vector, here the
\* shortest integer vector of that direction; the zero vector stays zero
normalize(v) ==
    LET d == Gcd(Gcd(Abs(v[1]), Abs(v[2])), Abs(v[3]))
    IN  IF d = 0 THEN v ELSE V3(v[1] \div d, v[2] \div d, v[3] \div d)

\* the x, y and z axes of a rest rotation (makeBasis), x being the cross
\* product of y and z
Axes(rotation) ==
    << normalize(Cross(rotation.y, rotation.z)), normalize(rotation.y),
       normalize(rotation.z) >>

\* a faulty correction, original.clone().invert().multiply(edited)
Correction_inverting_the_original(edited, original) ==
    [ edited |-> edited, original |-> original,
      matrix |-> << V3(Dot(Axes(original)[1], Axes(edited)[1]),
                       Dot(Axes(original)[1], Axes(edited)[2]),
                       Dot(Axes(original)[1], Axes(edited)[3])),
                    V3(Dot(Axes(original)[2], Axes(edited)[1]),
                       Dot(Axes(original)[2], Axes(edited)[2]),
                       Dot(Axes(original)[2], Axes(edited)[3])),
                    V3(Dot(Axes(original)[3], Axes(edited)[1]),
                       Dot(Axes(original)[3], Axes(edited)[2]),
                       Dot(Axes(original)[3], Axes(edited)[3])) >> ]

\* edited.clone().invert().multiply(original), kept as its two factors and as
\* the matrix of the product: the inverse of a rotation is its transpose, so
\* the entry of row a and column b is the dot product of axis a of the edited
\* and axis b of the original rotation (of the unnormalised axes, hence the
\* cosine of their angle times their lengths)
Correction(edited, original) ==
    [ edited |-> edited, original |-> original,
      matrix |-> << V3(Dot(Axes(edited)[1], Axes(original)[1]),
                       Dot(Axes(edited)[1], Axes(original)[2]),
                       Dot(Axes(edited)[1], Axes(original)[3])),
                    V3(Dot(Axes(edited)[2], Axes(original)[1]),
                       Dot(Axes(edited)[2], Axes(original)[2]),
                       Dot(Axes(edited)[2], Axes(original)[3])),
                    V3(Dot(Axes(edited)[3], Axes(original)[1]),
                       Dot(Axes(edited)[3], Axes(original)[2]),
                       Dot(Axes(edited)[3], Axes(original)[3])) >> ]

\* 1 - |correction.w| > 1e-5: the correction is not the identity
BeyondEpsilon(correction) ==
    ~( /\ SameDirection(correction.edited.y, correction.original.y)
       /\ SameDirection(correction.edited.z, correction.original.z) )

\* the value a Map holds for a bone name after set was called for every bone
\* of the set in skeleton order: that of the last such bone
LastNamed(bones, indices, name) ==
    LET m == { i \in indices : bones[i].name = name }
    IN  IF m = {} THEN 0 ELSE CHOOSE i \in m : \A k \in m : k <= i

\* the bones of a skeleton, as the sequence they are
Bones(bones) == SubSeq(bones, 1, Len(bones))

\* a faulty solver, which records the correction of every bone that has a
\* rest rotation, identity or not
get_rest_pose_rotation_corrections_without_threshold(bones, original) ==
    LET current_bone_transforms == store_bone_transforms(bones)
        rest == Bones(restore_bone_transforms(bones, original))
        rest_world == updateWorldMatrix(rest, Len(rest))
        forward == compute_forward_vector(rest, rest_world)
        edited == Bones(restore_bone_transforms(rest, current_bone_transforms))
        edited_world == updateWorldMatrix(edited, Len(edited))
        both == { i \in 1 .. Len(edited) :
                    /\ compute_rest_rotation(rest, rest_world, i, forward).defined
                    /\ compute_rest_rotation(edited, edited_world, i, forward).defined }
    IN  IF original = << >> THEN [ bones |-> bones, corrections |-> { } ]
        ELSE [ bones |-> edited,
               corrections |->
                 { [ bone |-> edited[i].name,
                     correction |-> Correction(compute_rest_rotation(edited, edited_world, i, forward),
                                               compute_rest_rotation(rest, rest_world, i, forward)) ] :
                   i \in both } ]

\* a faulty solver, which leaves the skeleton in the original rest pose
get_rest_pose_rotation_corrections_leaving_the_rest_pose(bones, original) ==
    IF original = << >> THEN [ bones |-> bones, corrections |-> { } ]
    ELSE [ bones |-> Bones(restore_bone_transforms(bones, original)),
           corrections |-> { } ]

\* get_rest_pose_rotation_corrections(): the skeleton as the call leaves it,
\* and the correction map as a set of entries, one for a bone name
get_rest_pose_rotation_corrections(bones, original) ==
    LET current_bone_transforms == store_bone_transforms(bones)
        rest == Bones(restore_bone_transforms(bones, original))
        rest_world == updateWorldMatrix(rest, Len(rest))
        forward == compute_forward_vector(rest, rest_world)
        with_rest == { i \in 1 .. Len(rest) :
                         compute_rest_rotation(rest, rest_world, i, forward).defined }
        original_rest_rotation(name) ==
          compute_rest_rotation(rest, rest_world, LastNamed(rest, with_rest, name), forward)
        edited == Bones(restore_bone_transforms(rest, current_bone_transforms))
        edited_world == updateWorldMatrix(edited, Len(edited))
        correction(i) ==
          Correction(compute_rest_rotation(edited, edited_world, i, forward),
                     original_rest_rotation(edited[i].name))
        set == { i \in 1 .. Len(edited) :
                   /\ LastNamed(rest, with_rest, edited[i].name) # 0
                   /\ compute_rest_rotation(edited, edited_world, i, forward).defined
                   /\ BeyondEpsilon(correction(i)) }
    IN  IF original = << >> THEN [ bones |-> bones, corrections |-> { } ]
        ELSE [ bones |-> edited,
               corrections |->
                 { [ bone |-> edited[i].name, correction |-> correction(i) ] :
                   i \in { k \in set : LastNamed(edited, set, edited[k].name) = k } } ]

----------------------------------------------------------------------------
(* SnapToVolumeHandler *)

\* hover_distance = 0.02, in hundredths of a world unit
hover_distance == 2

\* what raycast_closest_bone_test can report as the closest distance, in
\* hundredths; NoDistance stands for null
NoDistance == -1
Distances == { NoDistance, 2, 3 }

\* no intersection of the pointer ray with a mesh
NoHit == << >>

\* search_radius = 0.15, in two-hundredths of a world unit, the unit of the
\* meshes below
search_radius == 30

\* a Matrix4 made of a rotation and a translation, and its use on a point
Matrix4(rotation, position) ==
    [ linear |-> RotationMatrix(rotation), position |-> position ]
applyMatrix4(v, m) == Add(MatVec(m.linear, v), m.position)

\* Matrix4.invert, for a rotation and a translation
invert(m) ==
    LET transposed == << Column(m.linear, 1), Column(m.linear, 2), Column(m.linear, 3) >>
    IN  [ linear |-> transposed,
          position |-> Times(-1, MatVec(transposed, m.position)) ]

\* a Mesh: whether it has a geometry and a position attribute, the vertices
\* of the attribute, and its world matrix
Mesh(geometry, vertices, matrixWorld) ==
    [ geometry |-> geometry, vertices |-> vertices, matrixWorld |-> matrixWorld ]

\* the smallest and the largest of a set of numbers
MinOf(numbers) == CHOOSE n \in numbers : \A k \in numbers : n <= k
MaxOf(numbers) == CHOOSE n \in numbers : \A k \in numbers : k <= n

\* Box3.setFromPoints(points).getCenter()
BoxCenter(points) ==
    [ a \in 1 .. 3 |->
        ( MinOf({ v[a] : v \in points }) + MaxOf({ v[a] : v \in points }) ) \div 2 ]

\* a faulty volume center, which looks for the vertices around the world point
calculate_local_volume_center_around_the_world_point(mesh, intersection_point) ==
    LET nearby_vertices ==
          { v \in mesh.vertices :
              LengthSq(Sub(v, intersection_point)) < search_radius * search_radius }
    IN  IF mesh.geometry # "position" THEN intersection_point
        ELSE IF nearby_vertices # { }
        THEN applyMatrix4(BoxCenter(nearby_vertices), mesh.matrixWorld)
        ELSE intersection_point

\* calculate_local_volume_center(mesh, intersection_point)
calculate_local_volume_center(mesh, intersection_point) ==
    LET inverse_matrix == invert(mesh.matrixWorld)
        local_intersection == applyMatrix4(intersection_point, inverse_matrix)
        nearby_vertices ==
          { v \in mesh.vertices :
              LengthSq(Sub(v, local_intersection)) < search_radius * search_radius }
    IN  IF mesh.geometry # "position" THEN intersection_point
        ELSE IF nearby_vertices # { }
        THEN applyMatrix4(BoxCenter(nearby_vertices), mesh.matrixWorld)
        ELSE intersection_point

\* a reference to a Bone object: the skeleton instance it belongs to, its
\* index there and its name; NoBone stands for null
BoneRef(id, bones, i) == [ skeleton |-> id, bone |-> i, name |-> bones[i].name ]
NoBone == [ skeleton |-> 0, bone |-> 0, name |-> << >> ]

\* a faulty snap, which mirrors the bone although the ray hit nothing
snap_bone_to_volume_at_mouse_position_mirroring_without_hit(bones, id, bone, hit, mirror) ==
    LET live == bone.skeleton = id
        moved == IF live /\ hit # NoHit
                 THEN [ bones EXCEPT ![bone.bone].position = hit ] ELSE bones
        moved_bone == IF live THEN moved[bone.bone]
                      ELSE NewBone(bone.name, 0, hit)
    IN  IF mirror /\ (live \/ hit # NoHit)
        THEN apply_mirror_mode(moved, moved_bone, "translate")
        ELSE moved

\* a faulty snap, which mirrors whether or not mirror mode is enabled
snap_bone_to_volume_at_mouse_position_always_mirroring(bones, id, bone, hit, mirror) ==
    IF hit = NoHit THEN bones
    ELSE LET live == bone.skeleton = id
             moved == IF live THEN [ bones EXCEPT ![bone.bone].position = hit ]
                      ELSE bones
             moved_bone == IF live THEN moved[bone.bone]
                           ELSE NewBone(bone.name, 0, hit)
         IN  apply_mirror_mode(moved, moved_bone, "translate")

\* snap_bone_to_volume_at_mouse_position: hit is NoHit, or the volume center
\* in the local space of the bone's parent. A bone of a skeleton that has been
\* replaced is moved without the live skeleton seeing it, but mirroring still
\* searches the live skeleton for its counterpart.
snap_bone_to_volume_at_mouse_position(bones, id, bone, hit, mirror) ==
    IF hit = NoHit THEN bones
    ELSE LET live == bone.skeleton = id
             moved == IF live THEN [ bones EXCEPT ![bone.bone].position = hit ]
                      ELSE bones
             moved_bone == IF live THEN moved[bone.bone]
                           ELSE NewBone(bone.name, 0, hit)
         IN  IF mirror THEN apply_mirror_mode(moved, moved_bone, "translate")
             ELSE moved

\* a faulty test, which starts a drag however far the closest bone is
StartsDrag_ignoring_the_distance(bones, closest_bone, closest_distance) ==
    /\ ~(closest_bone # 0 /\ bones[closest_bone].name = << "root" >>)
    /\ closest_bone # 0

\* whether handle_mouse_down gets past its early returns and starts a drag
StartsDrag(bones, closest_bone, closest_distance) ==
    /\ ~(closest_bone # 0 /\ bones[closest_bone].name = << "root" >>)
    /\ ~(closest_distance = NoDistance \/ closest_distance > hover_distance)
    /\ closest_bone # 0

----------------------------------------------------------------------------
(* Files and BVH texts *)

\* a BVH text as the model sees it: well formed, with its number of joints
\* and the name of its clip; malformed, with the message of the error the
\* parser raises on it; or empty
BVHText(joints, clip) ==
    [ kind |-> "bvh", joints |-> joints, clip |-> clip, error |-> "" ]
MalformedText(error) ==
    [ kind |-> "malformed", joints |-> 0, clip |-> "", error |-> error ]
EmptyText ==
    [ kind |-> "empty", joints |-> 0, clip |-> "", error |-> "" ]

\* the clip name of a text for which the loader yields no clip at all
NoClip == "undefined"

\* a File: its name (stem and extension), whether reading it succeeds, its text
File(stem, ext, readable, text) ==
    [ name |-> << stem, ext >>, readable |-> readable, text |-> text ]

\* the input element with no file chosen
NoFile == File("", "", FALSE, EmptyText)

\* the files a user can choose
Files ==
    { File("walk", ".bvh", TRUE, BVHText(2, "")),
      File("run", ".BVH", TRUE, BVHText(3, "run")),
      File("broken", ".bvh", TRUE, MalformedText("structurally invalid hierarchy")),
      File("empty", ".bvh", TRUE, EmptyText),
      File("gone", ".bvh", FALSE, EmptyText),
      File("notes", ".txt", TRUE, MalformedText("structurally invalid hierarchy")) }

\* String.prototype.toLowerCase on a file extension
toLowerCase(ext) == IF ext = ".BVH" THEN ".bvh" ELSE ext

\* new Error(message), and the absence of an error
Error(message) == [ name |-> "Error", message |-> message ]
NoError == [ name |-> "", message |-> "" ]

\* an Object3D as the model sees it: its name, its children, and the number
\* of the import that created it (0: not created by an import); NoObject
\* stands for null and for the absence of a preview in a scene
Object3D(name, children, import) ==
    [ name |-> name, children |-> children, import |-> import ]
NoObject == Object3D("null", << >>, 0)

----------------------------------------------------------------------------
(* BVHImporter *)

\* the joint names of the texts above, in the order of their declaration
JointNames == << "Hips", "Chest", "Head", "Neck", "Jaw" >>

\* BVHLoader.parse (specification 4.1): the skeleton and the clip of a well
\* formed text, a ParseError on any other text
BVHLoader_parse(text) ==
    IF text.kind = "bvh"
    THEN [ threw |-> FALSE, error |-> NoError,
           skeleton |-> [ i \in 1 .. text.joints |->
                            [ name |-> JointNames[i], parent |-> i - 1 ] ],
           clip |-> IF text.clip = NoClip THEN << >>
                    ELSE << [ name |-> text.clip ] >> ]
    ELSE [ threw |-> TRUE,
           error |-> [ name |-> "ParseError", message |-> text.error ],
           skeleton |-> << >>, clip |-> << >> ]

\* the largest bone list findRootBone is tried on
MaxBones == 3

\* a parent that is an object outside the bone list (0 stands for no parent)
Outside == MaxBones + 1

\* the bone lists a Skeleton can hold: every bone has no parent, an object
\* outside the list or another bone of the list as its parent
Skeletons ==
    UNION { { [ i \in 1 .. n |-> [ name |-> JointNames[i], parent |-> parents[i] ] ] :
              parents \in { f \in [ 1 .. n -> 0 .. Outside ] :
                              \A i \in 1 .. n :
                                f[i] # i /\ f[i] \in ( 0 .. n ) \cup { Outside } } } :
            n \in 0 .. MaxBones }

\* the texts parseBVHText is tried on
Texts ==
    { BVHText(2, ""), BVHText(2, "walk"), BVHText(3, "run"), BVHText(1, ""),
      BVHText(2, NoClip), MalformedText("structurally invalid hierarchy"),
      MalformedText("truncated motion data") }

\* a faulty findRootBone, which takes the first bone without looking at parents
findRootBone_taking_the_first(bones) ==
    IF Len(bones) > 0 THEN 1 ELSE 0

\* findRootBone: the first bone whose parent is absent or not in the bone
\* list, else the first bone, else null (0)
findRootBone(bones) ==
    LET roots == { i \in 1 .. Len(bones) :
                     bones[i].parent = 0 \/ bones[i].parent \notin 1 .. Len(bones) }
    IN  IF roots # {} THEN CHOOSE i \in roots : \A k \in roots : i <= k
        ELSE IF Len(bones) > 0 THEN 1 ELSE 0

\* a faulty createArmatureFromSkeleton, which adds every bone it is given
createArmatureFromSkeleton_adding_every_bone(bones, import) ==
    Object3D("BVH_Armature", [ i \in 1 .. Len(bones) |-> i ], import)

\* createArmatureFromSkeleton: an armature whose child is the root bone
createArmatureFromSkeleton(bones, import) ==
    LET rootBone == findRootBone(bones)
    IN  Object3D("BVH_Armature",
                 IF rootBone # 0 THEN << rootBone >> ELSE << >>, import)

\* a BVHImportResult; Null stands for null
BVHImportResult(skeleton, armature, animations, import) ==
    [ skeleton |-> skeleton, armature |-> armature, animations |-> animations,
      import |-> import ]
Null == BVHImportResult(<< >>, NoObject, << >>, 0)

\* a faulty parseBVHText, which leaves a clip the name the loader gave it
parseBVHText_keeping_the_empty_name(text, import) ==
    LET result == BVHLoader_parse(text)
        animations ==
          [ i \in 1 .. Len(result.clip) |->
              [ name |-> result.clip[i].name, import |-> import ] ]
    IN  IF result.threw
        THEN [ threw |-> TRUE, error |-> result.error, value |-> Null ]
        ELSE [ threw |-> FALSE, error |-> NoError,
               value |-> BVHImportResult(
                           result.skeleton,
                           createArmatureFromSkeleton(result.skeleton, import),
                           animations, import) ]

\* parseBVHText: the result, or the error the loader threw
parseBVHText(text, import) ==
    LET result == BVHLoader_parse(text)
        animations ==
          [ i \in 1 .. Len(result.clip) |->
              [ name |-> IF result.clip[i].name = "" THEN "Imported Animation"
                         ELSE result.clip[i].name,
                import |-> import ] ]
    IN  IF result.threw
        THEN [ threw |-> TRUE, error |-> result.error, value |-> Null ]
        ELSE [ threw |-> FALSE, error |-> NoError,
               value |-> BVHImportResult(
                           result.skeleton,
                           createArmatureFromSkeleton(result.skeleton, import),
                           animations, import) ]

\* a call of resolve or of reject
Resolve(value) == [ how |-> "resolve", value |-> value, error |-> NoError ]
Reject(error) == [ how |-> "reject", value |-> Null, error |-> error ]

\* what a promise settles to: the first call of resolve or reject
Settled(calls) == calls[1]

\* a faulty importFromFile, which goes on to parse after it rejected an empty text
importFromFile_without_return(file, import) ==
    LET parsed == parseBVHText(file.text, import)
        parse == IF parsed.threw
                 THEN [ calls |-> << Reject(parsed.error) >>,
                        dialogs |-> << "Error parsing BVH file" >> ]
                 ELSE [ calls |-> << Resolve(parsed.value) >>, dialogs |-> << >> ]
    IN  IF ~file.readable
        THEN [ calls |-> << Reject(Error("File read error")) >>,
               dialogs |-> << "Error reading file" >> ]
        ELSE IF file.text.kind = "empty"
        THEN [ calls |-> << Reject(Error("Failed to read file")) >> \o parse.calls,
               dialogs |-> << "Error reading BVH file" >> \o parse.dialogs ]
        ELSE parse

\* importFromFile: the calls of resolve and reject it makes, in order, and the
\* modal dialogs it shows (reader.onerror, or reader.onload with the text)
importFromFile(file, import) ==
    LET parsed == parseBVHText(file.text, import)
    IN  IF ~file.readable
        THEN [ calls |-> << Reject(Error("File read error")) >>,
               dialogs |-> << "Error reading file" >> ]
        ELSE IF file.text.kind = "empty"
        THEN [ calls |-> << Reject(Error("Failed to read file")) >>,
               dialogs |-> << "Error reading BVH file" >> ]
        ELSE IF parsed.threw
        THEN [ calls |-> << Reject(parsed.error) >>,
               dialogs |-> << "Error parsing BVH file" >> ]
        ELSE [ calls |-> << Resolve(parsed.value) >>, dialogs |-> << >> ]

----------------------------------------------------------------------------
(* PreviewSkeletonManager: the preview skeleton of a scene *)

\* add_preview_skeleton_from_bvh(scene, armature): the scene shows the armature
add_preview_skeleton_from_bvh(preview, armature) == armature

\* remove_preview_skeleton(scene): the scene shows no preview skeleton
remove_preview_skeleton(preview) == NoObject

----------------------------------------------------------------------------
(* StepImport *)

\* a StepImport just constructed; "markup" is the state a control of the page
\* has before the step writes it
NewStepImport ==
    [ added_event_listeners |-> FALSE,
      loaded_armature |-> Object3D("", << >>, 0),
      loaded_animations |-> << >>,
      has_imported_skeleton |-> FALSE,
      dom_imported_skeleton_name |-> << "markup" >>,
      dom_import_skeleton_button_disabled |-> "markup",
      preview |-> NoObject ]

\* show_preview_skeleton
show_preview_skeleton(step) ==
    IF ~step.has_imported_skeleton THEN step
    ELSE [ step EXCEPT !.preview =
             add_preview_skeleton_from_bvh(step.preview, step.loaded_armature) ]

\* allow_proceeding_to_next_step(allow)
allow_proceeding_to_next_step(step, allow) ==
    [ step EXCEPT !.dom_import_skeleton_button_disabled =
        IF allow THEN "false" ELSE "true" ]

\* begin()
begin(step) ==
    LET listening == [ step EXCEPT !.added_event_listeners = TRUE ]
        disabled == allow_proceeding_to_next_step(listening, FALSE)
    IN  IF disabled.has_imported_skeleton
        THEN allow_proceeding_to_next_step(show_preview_skeleton(disabled), TRUE)
        ELSE disabled

\* dispose()
dispose(step) ==
    [ step EXCEPT !.preview = remove_preview_skeleton(step.preview) ]

\* a faulty import_bvh_file, which marks the skeleton as imported before the
\* importer has settled
import_bvh_file_marking_before_the_read(file, import, step) ==
    LET imported == importFromFile(file, import)
        result == Settled(imported.calls)
        marked == [ step EXCEPT !.has_imported_skeleton = TRUE ]
    IN  IF result.how = "reject"
        THEN [ threw |-> TRUE, step |-> marked, events |-> imported.dialogs ]
        ELSE [ threw |-> FALSE, step |-> marked, events |-> imported.dialogs ]

\* import_bvh_file(file): whether it threw (the importer rejected), the new
\* state of the step, and the dialogs shown and events dispatched
import_bvh_file(file, import, step) ==
    LET imported == importFromFile(file, import)
        result == Settled(imported.calls)
        armature == Object3D("Imported BVH Armature",
                             result.value.armature.children, result.value.import)
        stored == [ step EXCEPT !.loaded_armature = armature,
                                !.loaded_animations = result.value.animations,
                                !.has_imported_skeleton = TRUE,
                                !.dom_imported_skeleton_name = file.name ]
    IN  IF result.how = "reject"
        THEN [ threw |-> TRUE, step |-> step, events |-> imported.dialogs ]
        ELSE IF result.value = Null
        THEN [ threw |-> FALSE, step |-> step, events |-> imported.dialogs ]
        ELSE [ threw |-> FALSE,
               step |-> allow_proceeding_to_next_step(
                          show_preview_skeleton(stored), TRUE),
               events |-> imported.dialogs \o << "skeletonImported" >> ]

----------------------------------------------------------------------------
(* SkeletonStorage *)

\* a SkeletonStorage just constructed, over a localStorage without the item
NewSkeletonStorage == [ localStorage |-> << >>, skeletonCache |-> { } ]

\* loadAllFromStorage: the stored skeleton infos
loadAllFromStorage(storage) == storage.localStorage

\* saveToStorage(info): writable says whether localStorage.setItem succeeds
saveToStorage(info, writable, storage) ==
    IF writable
    THEN [ threw |-> FALSE, error |-> NoError,
           storage |-> [ storage EXCEPT !.localStorage =
                           Append(loadAllFromStorage(storage), info) ] ]
    ELSE [ threw |-> TRUE,
           error |-> Error("Failed to save skeleton. Storage may be full."),
           storage |-> storage ]

\* a faulty store, which caches the parsed skeleton before it saves the text
storeSkeletonFromBVH_caching_before_saving(name, bvhContent, import, writable, storage) ==
    LET result == parseBVHText(bvhContent, import)
        skeletonInfo == [ id |-> import, name |-> name, bvhContent |-> bvhContent,
                          boneCount |-> Len(result.value.skeleton),
                          animationCount |-> Len(result.value.animations) ]
        cached == [ id |-> import, name |-> name,
                    armature |-> result.value.armature,
                    animations |-> result.value.animations,
                    skeleton |-> result.value.skeleton ]
        kept == [ storage EXCEPT !.skeletonCache = @ \cup { cached } ]
        saved == saveToStorage(skeletonInfo, writable, kept)
    IN  IF result.threw
        THEN [ threw |-> TRUE, error |-> result.error, storage |-> storage ]
        ELSE [ threw |-> saved.threw, error |-> saved.error, storage |-> saved.storage ]

\* storeSkeletonFromBVH(name, bvhContent); the generated id is the number of
\* the import, createdAt is left out
storeSkeletonFromBVH(name, bvhContent, import, writable, storage) ==
    LET result == parseBVHText(bvhContent, import)
        skeletonInfo == [ id |-> import, name |-> name, bvhContent |-> bvhContent,
                          boneCount |-> Len(result.value.skeleton),
                          animationCount |-> Len(result.value.animations) ]
        saved == saveToStorage(skeletonInfo, writable, storage)
        cached == [ id |-> import, name |-> name,
                    armature |-> result.value.armature,
                    animations |-> result.value.animations,
                    skeleton |-> result.value.skeleton ]
    IN  IF result.threw
        THEN [ threw |-> TRUE, error |-> result.error, storage |-> storage ]
        ELSE IF saved.threw
        THEN [ threw |-> TRUE, error |-> saved.error, storage |-> saved.storage ]
        ELSE [ threw |-> FALSE, error |-> NoError,
               storage |-> [ saved.storage EXCEPT
                               !.skeletonCache = @ \cup { cached } ] ]

\* undefined, as getSkeleton returns it
Undefined ==
    [ id |-> 0, name |-> << >>, armature |-> NoObject, animations |-> << >>,
      skeleton |-> << >> ]

\* skeletonCache.set(id, skeleton)
CacheSet(cache, skeleton) ==
    { c \in cache : c.id # skeleton.id } \cup { skeleton }

\* the place of the first stored info with the id, 0 when there is none
findIndex(stored, id) ==
    LET found == { i \in 1 .. Len(stored) : stored[i].id = id }
    IN  IF found = { } THEN 0 ELSE CHOOSE i \in found : \A k \in found : i <= k

\* a faulty getSkeleton, which knows only the skeletons of its cache
getSkeleton_without_reparse(id, import, storage) ==
    LET cached == { c \in storage.skeletonCache : c.id = id }
    IN  [ value |-> IF cached # { } THEN CHOOSE c \in cached : TRUE ELSE Undefined,
          storage |-> storage ]

\* getSkeleton(id): the skeleton of the cache, or the stored text parsed again
\* (as import) and cached, or undefined
getSkeleton(id, import, storage) ==
    LET cached == { c \in storage.skeletonCache : c.id = id }
        stored == loadAllFromStorage(storage)
        index == findIndex(stored, id)
        info == stored[index]
        result == parseBVHText(info.bvhContent, import)
        storedSkeleton == [ id |-> info.id, name |-> info.name,
                            armature |-> result.value.armature,
                            animations |-> result.value.animations,
                            skeleton |-> result.value.skeleton ]
    IN  IF cached # { }
        THEN [ value |-> CHOOSE c \in cached : TRUE, storage |-> storage ]
        ELSE IF index = 0 THEN [ value |-> Undefined, storage |-> storage ]
        ELSE IF result.threw THEN [ value |-> Undefined, storage |-> storage ]
        ELSE [ value |-> storedSkeleton,
               storage |-> [ storage EXCEPT
                               !.skeletonCache = CacheSet(@, storedSkeleton) ] ]

\* removeSkeleton(id): writable says whether localStorage.setItem succeeds
removeSkeleton(id, writable, storage) ==
    LET uncached == [ storage EXCEPT
                        !.skeletonCache = { c \in @ : c.id # id } ]
        stored == loadAllFromStorage(uncached)
        index == findIndex(stored, id)
    IN  IF index = 0
        THEN [ threw |-> FALSE, value |-> FALSE, storage |-> uncached ]
        ELSE IF ~writable
        THEN [ threw |-> TRUE, value |-> FALSE, storage |-> uncached ]
        ELSE [ threw |-> FALSE, value |-> TRUE,
               storage |-> [ uncached EXCEPT
                               !.localStorage =
                                 SubSeq(stored, 1, index - 1)
                                   \o SubSeq(stored, index + 1, Len(stored)) ] ]

\* clearAll()
clearAll(storage) ==
    [ storage EXCEPT !.skeletonCache = { }, !.localStorage = << >> ]

\* a SkeletonStorage constructed anew over the same localStorage, as after a
\* page navigation
Restarted(storage) ==
    [ storage EXCEPT !.skeletonCache = NewSkeletonStorage.skeletonCache ]

----------------------------------------------------------------------------
(* ImportBootstrap *)

\* an ImportBootstrap just constructed, over an empty storage
NewImportBootstrap ==
    [ currentPreviewArmature |-> NoObject,
      preview |-> NoObject,
      imported_skeleton_name |-> << "markup" >>,
      imported_skeleton_info_display |-> "markup",
      stored_skeletons_list |-> << >> ]

\* readFileAsText
readFileAsText(file) ==
    IF ~file.readable
    THEN [ threw |-> TRUE, error |-> Error("File read error"), text |-> EmptyText ]
    ELSE IF file.text.kind = "empty"
    THEN [ threw |-> TRUE, error |-> Error("Failed to read file"), text |-> EmptyText ]
    ELSE [ threw |-> FALSE, error |-> NoError, text |-> file.text ]

\* updateStoredSkeletonsList: a line for each stored skeleton
updateStoredSkeletonsList(page, storage) ==
    LET skeletons == loadAllFromStorage(storage)
    IN  [ page EXCEPT !.stored_skeletons_list =
            [ i \in 1 .. Len(skeletons) |->
                [ name |-> skeletons[i].name,
                  animationCount |-> skeletons[i].animationCount ] ] ]

\* the alert of handleBVHImport's catch block
ImportAlert ==
    "Failed to import BVH file. Please ensure it is a valid BVH format."

\* handleBVHImport(file): the new state of the page and of the storage, the
\* dialogs and alerts shown, and how it ended
handleBVHImport(file, import, writable, page, storage) ==
    LET bvhContent == readFileAsText(file)
        imported == importFromFile(file, import)
        result == Settled(imported.calls)
        removed == IF page.currentPreviewArmature # NoObject
                   THEN [ page EXCEPT !.preview = remove_preview_skeleton(page.preview) ]
                   ELSE page
        skeletonName == IF toLowerCase(file.name[2]) = ".bvh"
                        THEN << file.name[1] >> ELSE file.name
        stored == storeSkeletonFromBVH(skeletonName, bvhContent.text, import,
                                       writable, storage)
        armature == Object3D(result.value.armature.name,
                             result.value.armature.children, result.value.import)
        shown == [ removed EXCEPT
                     !.currentPreviewArmature = armature,
                     !.preview = add_preview_skeleton_from_bvh(removed.preview, armature),
                     !.imported_skeleton_name = skeletonName,
                     !.imported_skeleton_info_display = "block" ]
    IN  IF bvhContent.threw
        THEN [ page |-> page, storage |-> storage,
               events |-> << ImportAlert >>, ended |-> "read failed" ]
        ELSE IF result.how = "reject"
        THEN [ page |-> page, storage |-> storage,
               events |-> imported.dialogs \o << ImportAlert >>,
               ended |-> "import failed" ]
        ELSE IF result.value = Null
        THEN [ page |-> page, storage |-> storage,
               events |-> imported.dialogs, ended |-> "no result" ]
        ELSE IF stored.threw
        THEN [ page |-> removed, storage |-> stored.storage,
               events |-> << ImportAlert >>, ended |-> "store failed" ]
        ELSE [ page |-> updateStoredSkeletonsList(shown, stored.storage),
               storage |-> stored.storage,
               events |-> << >>, ended |-> "imported" ]

\* file.name.replace(/\.bvh$/i, '')
SkeletonName(file) ==
    IF toLowerCase(file.name[2]) = ".bvh" THEN << file.name[1] >> ELSE file.name

\* a call of handleBVHImport(file) that has reached its first await: the await
\* it is at, its local constants, how it ended, whether another call was
\* awaiting when it started, and its place among the calls that have ended
Handler(file, import, overlapped) ==
    [ file |-> file, import |-> import, at |-> "readFileAsText",
      bvhContent |-> EmptyText, result |-> Null, ended |-> "",
      overlapped |-> overlapped, finished |-> 0 ]

\* the call has ended
Ended(h, how, place) ==
    [ h EXCEPT !.at = "done", !.ended = how, !.finished = place ]

\* a faulty continuation, which writes the skeleton name as soon as the text is read
handleBVHImport_after_readFileAsText_naming_the_skeleton(h, place, page) ==
    LET bvhContent == readFileAsText(h.file)
    IN  IF bvhContent.threw
        THEN [ handler |-> Ended(h, "read failed", place), page |-> page,
               events |-> << ImportAlert >> ]
        ELSE [ handler |-> [ h EXCEPT !.at = "importFromFile",
                                      !.bvhContent = bvhContent.text ],
               page |-> [ page EXCEPT !.imported_skeleton_name = SkeletonName(h.file) ],
               events |-> << >> ]

\* handleBVHImport from the await of readFileAsText to the await of importFromFile
handleBVHImport_after_readFileAsText(h, place, page) ==
    LET bvhContent == readFileAsText(h.file)
    IN  IF bvhContent.threw
        THEN [ handler |-> Ended(h, "read failed", place), page |-> page,
               events |-> << ImportAlert >> ]
        ELSE [ handler |-> [ h EXCEPT !.at = "importFromFile",
                                      !.bvhContent = bvhContent.text ],
               page |-> page, events |-> << >> ]

\* handleBVHImport from the await of importFromFile to that of storeSkeletonFromBVH
handleBVHImport_after_importFromFile(h, place, page) ==
    LET imported == importFromFile(h.file, h.import)
        result == Settled(imported.calls)
        removed == IF page.currentPreviewArmature # NoObject
                   THEN [ page EXCEPT !.preview = remove_preview_skeleton(page.preview) ]
                   ELSE page
    IN  IF result.how = "reject"
        THEN [ handler |-> Ended(h, "import failed", place), page |-> page,
               events |-> imported.dialogs \o << ImportAlert >> ]
        ELSE IF result.value = Null
        THEN [ handler |-> Ended(h, "no result", place), page |-> page,
               events |-> imported.dialogs ]
        ELSE [ handler |-> [ h EXCEPT !.at = "storeSkeletonFromBVH",
                                      !.result = result.value ],
               page |-> removed, events |-> imported.dialogs ]

\* handleBVHImport from the await of storeSkeletonFromBVH, whose write happens
\* while it is awaited, to the await of add_preview_skeleton_from_bvh
handleBVHImport_after_storeSkeletonFromBVH(h, place, writable, page, storage) ==
    LET stored == storeSkeletonFromBVH(SkeletonName(h.file), h.bvhContent, h.import,
                                       writable, storage)
        armature == Object3D(h.result.armature.name, h.result.armature.children,
                             h.result.import)
    IN  IF stored.threw
        THEN [ handler |-> Ended(h, "store failed", place), page |-> page,
               storage |-> stored.storage, events |-> << ImportAlert >> ]
        ELSE [ handler |-> [ h EXCEPT !.at = "add_preview_skeleton_from_bvh" ],
               page |-> [ page EXCEPT
                            !.currentPreviewArmature = armature,
                            !.preview = add_preview_skeleton_from_bvh(page.preview,
                                                                      armature) ],
               storage |-> stored.storage, events |-> << >> ]

\* handleBVHImport from the await of add_preview_skeleton_from_bvh to its end
handleBVHImport_after_add_preview_skeleton_from_bvh(h, place, page, storage) ==
    [ handler |-> Ended(h, "imported", place),
      page |-> updateStoredSkeletonsList(
                 [ page EXCEPT !.imported_skeleton_name = SkeletonName(h.file),
                               !.imported_skeleton_info_display = "block" ],
                 storage),
      events |-> << >> ]

----------------------------------------------------------------------------
(* Records of the observer *)

\* the record of a drag: "down" from the mouse-down that selected a bone and
\* through its mouse-moves, "up" after its mouse-up, "off" once anything else ran
DragOff == [ phase |-> "off", pose |-> << >>, undo_len |-> 0 ]

----------------------------------------------------------------------------
(* The scripted run of the History specification (unused in Spec) *)

ScriptOff ==
    [ phase |-> "off", stored |-> 0, undone |-> 0, base |-> << >>,
      all_ok |-> TRUE, captures |-> << >> ]

----------------------------------------------------------------------------
(* Initial state: a StepEditSkeleton and a SnapToVolumeHandler just constructed *)

Init ==
    /\ threejs_skeleton = << >>
    /\ skeleton_id = 0
    /\ original_bone_transforms = << >>
    /\ undo_stack = << >>
    /\ redo_stack = << >>
    /\ mirror_mode_enabled = TRUE
    /\ currently_selected_bone = NoBone
    /\ is_dragging = FALSE
    /\ controls_enabled = TRUE
    /\ last = Ran("constructor", << >>, << >>, << >>)
    /\ edits = 0
    /\ script = ScriptOff
    /\ drag_log = DragOff
    /\ import_calls = 0
    /\ step_import = NewStepImport
    /\ import_bootstrap = NewImportBootstrap
    /\ skeleton_storage = NewSkeletonStorage
    /\ handlers = << >>
    /\ ui = NewUI

----------------------------------------------------------------------------
(* Actions *)

\* load_original_armature_from_model(armature)
Load(k) ==
    /\ skeleton_id < MaxLoads
    /\ LET r == load_original_armature_from_model(k, undo_stack, redo_stack)
       IN  /\ threejs_skeleton' = r.bones
           /\ undo_stack' = r.undo
           /\ redo_stack' = r.redo
           /\ original_bone_transforms' = r.original
    /\ skeleton_id' = skeleton_id + 1
    /\ last' = Ran("load", << k, Len(undo_stack) + Len(redo_stack) >>, << >>, << >>)
    /\ UNCHANGED << mirror_mode_enabled, currently_selected_bone, is_dragging,
                    controls_enabled, edits, script >>
    /\ drag_log' = DragOff
    /\ ui' = dispatch_state_change_event(ui, undo_stack', redo_stack')
    /\ UNCHANGED import_vars

\* store_bone_state_for_undo(), called by an editing tool before it edits
Store ==
    /\ skeleton_id > 0
    /\ edits < MaxEdits
    /\ LET r == store_bone_state_for_undo(threejs_skeleton, skeleton_id,
                                          undo_stack, redo_stack)
       IN  /\ undo_stack' = r.undo
           /\ redo_stack' = r.redo
    /\ edits' = edits + 1
    /\ last' = Ran("store", << Len(redo_stack) >>, << >>, << >>)
    /\ UNCHANGED << threejs_skeleton, skeleton_id, original_bone_transforms,
                    mirror_mode_enabled, currently_selected_bone, is_dragging,
                    controls_enabled, script >>
    /\ drag_log' = DragOff
    /\ ui' = dispatch_state_change_event(ui, undo_stack', redo_stack')
    /\ UNCHANGED import_vars

\* an editing tool writes a bone's local position, rotation or scale
Mutate(i, field, value) ==
    /\ edits < MaxEdits
    /\ i \in BoneIndices
    /\ threejs_skeleton' = [ threejs_skeleton EXCEPT ![i][field] = value ]
    /\ edits' = edits + 1
    /\ last' = Ran("mutate", << >>, << >>, << >>)
    /\ UNCHANGED << skeleton_id, original_bone_transforms, undo_stack, redo_stack,
                    mirror_mode_enabled, currently_selected_bone, is_dragging,
                    controls_enabled, script >>
    /\ drag_log' = DragOff
    /\ UNCHANGED ui
    /\ UNCHANGED import_vars

\* undo_bone_transformation(), also the click handler of the undo button
Undo ==
    /\ LET r == undo_bone_transformation(threejs_skeleton, skeleton_id,
                                         undo_stack, redo_stack)
       IN  /\ threejs_skeleton' = r.bones
           /\ undo_stack' = r.undo
           /\ redo_stack' = r.redo
           /\ last' = Ran("undo", << >>, << r.result >>, r.events)
    /\ UNCHANGED << skeleton_id, original_bone_transforms, mirror_mode_enabled,
                    currently_selected_bone, is_dragging, controls_enabled,
                    edits, script >>
    /\ drag_log' = DragOff
    /\ ui' = IF last'.returned[1]
             THEN dispatch_state_change_event(ui, undo_stack', redo_stack')
             ELSE ui
    /\ UNCHANGED import_vars

\* redo_bone_transformation(), also the click handler of the redo button
Redo ==
    /\ LET r == redo_bone_transformation(threejs_skeleton, skeleton_id,
                                         undo_stack, redo_stack)
       IN  /\ threejs_skeleton' = r.bones
           /\ undo_stack' = r.undo
           /\ redo_stack' = r.redo
           /\ last' = Ran("redo", << >>, << r.result >>, r.events)
    /\ UNCHANGED << skeleton_id, original_bone_transforms, mirror_mode_enabled,
                    currently_selected_bone, is_dragging, controls_enabled,
                    edits, script >>
    /\ drag_log' = DragOff
    /\ ui' = IF last'.returned[1]
             THEN dispatch_state_change_event(ui, undo_stack', redo_stack')
             ELSE ui
    /\ UNCHANGED import_vars

\* clear_undo_history()
ClearUndoHistory ==
    /\ LET r == clear_undo_history(undo_stack, redo_stack)
       IN  /\ undo_stack' = r.undo
           /\ redo_stack' = r.redo
    /\ last' = Ran("clear", << Len(undo_stack), Len(redo_stack) >>, << >>, << >>)
    /\ UNCHANGED << threejs_skeleton, skeleton_id, original_bone_transforms,
                    mirror_mode_enabled, currently_selected_bone, is_dragging,
                    controls_enabled, edits, script >>
    /\ drag_log' = DragOff
    /\ ui' = dispatch_state_change_event(ui, undo_stack', redo_stack')
    /\ UNCHANGED import_vars

\* a click on the move-to-origin button (bones[0] exists once a skeleton is loaded)
MoveToOrigin ==
    /\ skeleton_id > 0
    /\ edits < MaxEdits
    /\ LET r == move_to_origin(threejs_skeleton, skeleton_id, undo_stack, redo_stack)
       IN  /\ threejs_skeleton' = r.bones
           /\ undo_stack' = r.undo
           /\ redo_stack' = r.redo
    /\ edits' = edits + 1
    /\ last' = Ran("move_to_origin", << >>, << >>, << >>)
    /\ UNCHANGED << skeleton_id, original_bone_transforms, mirror_mode_enabled,
                    currently_selected_bone, is_dragging, controls_enabled, script >>
    /\ drag_log' = DragOff
    /\ UNCHANGED ui
    /\ UNCHANGED import_vars

\* set_mirror_mode_enabled(value), also the change handler of the checkbox
SetMirrorMode(value) ==
    /\ mirror_mode_enabled' = value
    /\ last' = Ran("set_mirror_mode", << >>, << >>, << >>)
    /\ UNCHANGED << threejs_skeleton, skeleton_id, original_bone_transforms,
                    undo_stack, redo_stack, currently_selected_bone, is_dragging,
                    controls_enabled, edits, script >>
    /\ drag_log' = DragOff
    /\ UNCHANGED ui
    /\ UNCHANGED import_vars

\* apply_mirror_mode(selected_bone, transform_type), called by an editing tool
ApplyMirrorMode(i, transform_type) ==
    /\ edits < MaxEdits
    /\ i \in BoneIndices
    /\ threejs_skeleton' =
         apply_mirror_mode(threejs_skeleton, threejs_skeleton[i], transform_type)
    /\ edits' = edits + 1
    /\ last' = Ran("apply_mirror_mode", << i, transform_type >>, << >>, << >>)
    /\ UNCHANGED << skeleton_id, original_bone_transforms, undo_stack, redo_stack,
                    mirror_mode_enabled, currently_selected_bone, is_dragging,
                    controls_enabled, script >>
    /\ drag_log' = DragOff
    /\ UNCHANGED ui
    /\ UNCHANGED import_vars

\* a faulty mouse-down, which stores the undo state after the initial snap
HandleMouseDown_storing_after_the_snap(closest_bone, closest_distance, hit) ==
    /\ edits < MaxEdits
    /\ closest_bone \in 0 .. Len(threejs_skeleton)
    /\ IF StartsDrag(threejs_skeleton, closest_bone, closest_distance)
       THEN LET selected == BoneRef(skeleton_id, threejs_skeleton, closest_bone)
                r == store_bone_state_for_undo(
                       snap_bone_to_volume_at_mouse_position(
                         threejs_skeleton, skeleton_id, selected, hit,
                         mirror_mode_enabled),
                       skeleton_id, undo_stack, redo_stack)
            IN  /\ currently_selected_bone' = selected
                /\ undo_stack' = r.undo
                /\ redo_stack' = r.redo
                /\ is_dragging' = TRUE
                /\ controls_enabled' = FALSE
                /\ threejs_skeleton' =
                     snap_bone_to_volume_at_mouse_position(
                       threejs_skeleton, skeleton_id, selected, hit,
                       mirror_mode_enabled)
                /\ edits' = edits + 1
                /\ drag_log' = [ phase |-> "down", pose |-> threejs_skeleton,
                                 undo_len |-> Len(undo_stack) ]
                /\ last' = Ran("mouse_down", << closest_bone, hit, closest_distance >>,
                               << TRUE >>, << >>)
       ELSE /\ last' = Ran("mouse_down", << closest_bone, NoHit, closest_distance >>,
                          << FALSE >>, << >>)
            /\ drag_log' = DragOff
            /\ UNCHANGED << threejs_skeleton, undo_stack, redo_stack,
                            currently_selected_bone, is_dragging,
                            controls_enabled, edits >>
    /\ UNCHANGED << skeleton_id, original_bone_transforms, mirror_mode_enabled,
                    script >>
    /\ ui' = IF last'.returned[1]
             THEN dispatch_state_change_event(ui, undo_stack', redo_stack')
             ELSE ui
    /\ UNCHANGED import_vars

\* SnapToVolumeHandler.handle_mouse_down: closest_bone and closest_distance are
\* what raycast_closest_bone_test reports, hit what the pointer ray meets (a
\* mouse-down that starts no drag casts no ray at the meshes)
HandleMouseDown(closest_bone, closest_distance, hit) ==
    /\ edits < MaxEdits
    /\ closest_bone \in 0 .. Len(threejs_skeleton)
    /\ IF StartsDrag(threejs_skeleton, closest_bone, closest_distance)
       THEN LET selected == BoneRef(skeleton_id, threejs_skeleton, closest_bone)
                r == store_bone_state_for_undo(threejs_skeleton, skeleton_id,
                                               undo_stack, redo_stack)
            IN  /\ currently_selected_bone' = selected
                /\ undo_stack' = r.undo
                /\ redo_stack' = r.redo
                /\ is_dragging' = TRUE
                /\ controls_enabled' = FALSE
                /\ threejs_skeleton' =
                     snap_bone_to_volume_at_mouse_position(
                       threejs_skeleton, skeleton_id, selected, hit,
                       mirror_mode_enabled)
                /\ edits' = edits + 1
                /\ drag_log' = [ phase |-> "down", pose |-> threejs_skeleton,
                                 undo_len |-> Len(undo_stack) ]
                /\ last' = Ran("mouse_down", << closest_bone, hit, closest_distance >>,
                               << TRUE >>, << >>)
       ELSE /\ last' = Ran("mouse_down", << closest_bone, NoHit, closest_distance >>,
                          << FALSE >>, << >>)
            /\ drag_log' = DragOff
            /\ UNCHANGED << threejs_skeleton, undo_stack, redo_stack,
                            currently_selected_bone, is_dragging,
                            controls_enabled, edits >>
    /\ UNCHANGED << skeleton_id, original_bone_transforms, mirror_mode_enabled,
                    script >>
    /\ ui' = IF last'.returned[1]
             THEN dispatch_state_change_event(ui, undo_stack', redo_stack')
             ELSE ui
    /\ UNCHANGED import_vars

\* SnapToVolumeHandler.handle_dragging
HandleDragging(hit) ==
    /\ edits < MaxEdits
    /\ IF currently_selected_bone = NoBone
       THEN UNCHANGED << threejs_skeleton, edits >>
       ELSE /\ threejs_skeleton' =
                 snap_bone_to_volume_at_mouse_position(
                   threejs_skeleton, skeleton_id, currently_selected_bone, hit,
                   mirror_mode_enabled)
            /\ edits' = IF hit = NoHit THEN edits ELSE edits + 1
    /\ last' = Ran("dragging", << hit >>, << >>, << >>)
    /\ drag_log' = IF drag_log.phase = "down" THEN drag_log ELSE DragOff
    /\ UNCHANGED << skeleton_id, original_bone_transforms, undo_stack, redo_stack,
                    mirror_mode_enabled, currently_selected_bone, is_dragging,
                    controls_enabled, script >>
    /\ UNCHANGED ui
    /\ UNCHANGED import_vars

\* a faulty mouse-up, which ends the drag and leaves the orbit controls as
\* they are
HandleMouseUp_leaving_the_controls ==
    /\ is_dragging' = FALSE
    /\ last' = Ran("mouse_up", << >>, << >>, << >>)
    /\ drag_log' = IF drag_log.phase = "down"
                   THEN [ drag_log EXCEPT !.phase = "up" ] ELSE DragOff
    /\ UNCHANGED << threejs_skeleton, skeleton_id, original_bone_transforms,
                    undo_stack, redo_stack, mirror_mode_enabled,
                    currently_selected_bone, controls_enabled, edits, script >>
    /\ UNCHANGED ui
    /\ UNCHANGED import_vars

\* SnapToVolumeHandler.handle_mouse_up
HandleMouseUp ==
    /\ is_dragging' = FALSE
    /\ controls_enabled' = TRUE
    /\ last' = Ran("mouse_up", << >>, << >>, << >>)
    /\ drag_log' = IF drag_log.phase = "down"
                   THEN [ drag_log EXCEPT !.phase = "up" ] ELSE DragOff
    /\ UNCHANGED << threejs_skeleton, skeleton_id, original_bone_transforms,
                    undo_stack, redo_stack, mirror_mode_enabled,
                    currently_selected_bone, edits, script >>
    /\ UNCHANGED ui
    /\ UNCHANGED import_vars

\* get_rest_pose_rotation_corrections()
GetRestPoseRotationCorrections ==
    /\ LET r == get_rest_pose_rotation_corrections(threejs_skeleton,
                                                   original_bone_transforms)
       IN  /\ threejs_skeleton' = r.bones
           /\ last' = Ran("get_rest_pose_rotation_corrections", << >>,
                          << r.corrections >>, << >>)
    /\ drag_log' = DragOff
    /\ UNCHANGED << skeleton_id, original_bone_transforms, undo_stack, redo_stack,
                    mirror_mode_enabled, currently_selected_bone, is_dragging,
                    controls_enabled, edits, script >>
    /\ UNCHANGED ui
    /\ UNCHANGED import_vars

\* begin(main_scene, skeleton_type)
BeginEditSkeleton ==
    /\ ui.begins < MaxBegins
    /\ ui' = [ StepEditSkeleton_begin(ui, undo_stack, redo_stack)
                EXCEPT !.begins = @ + 1 ]
    /\ last' = Ran("begin", << >>, << >>, << >>)
    /\ drag_log' = DragOff
    /\ UNCHANGED << threejs_skeleton, skeleton_id, original_bone_transforms,
                    undo_stack, redo_stack, mirror_mode_enabled,
                    currently_selected_bone, is_dragging, controls_enabled,
                    edits, script >>
    /\ UNCHANGED import_vars

\* cleanup_on_exit_step()
CleanupOnExitStep ==
    /\ ui' = cleanup_on_exit_step(ui)
    /\ last' = Ran("cleanup_on_exit_step", << >>, << >>, << >>)
    /\ drag_log' = DragOff
    /\ UNCHANGED << threejs_skeleton, skeleton_id, original_bone_transforms,
                    undo_stack, redo_stack, mirror_mode_enabled,
                    currently_selected_bone, is_dragging, controls_enabled,
                    edits, script >>
    /\ UNCHANGED import_vars

\* a click on the undo or on the redo button; a disabled button dispatches
\* no click
ClickButton(button) ==
    /\ ( IF button = "undo" THEN ui.dom_undo_button_disabled
                            ELSE ui.dom_redo_button_disabled ) # "true"
    /\ LET run == Click(button,
                        [ bones |-> threejs_skeleton, undo |-> undo_stack,
                          redo |-> redo_stack, page |-> ui, results |-> << >>,
                          events |-> << >> ],
                        skeleton_id,
                        IF button = "undo" THEN ui.undo_click_listeners
                                           ELSE ui.redo_click_listeners)
       IN  /\ threejs_skeleton' = run.bones
           /\ undo_stack' = run.undo
           /\ redo_stack' = run.redo
           /\ ui' = run.page
           /\ last' = Ran("click", << button >>, run.results, run.events)
    /\ drag_log' = DragOff
    /\ UNCHANGED << skeleton_id, original_bone_transforms, mirror_mode_enabled,
                    currently_selected_bone, is_dragging, controls_enabled,
                    edits, script >>
    /\ UNCHANGED import_vars

\* the edit-skeleton step driven through its own operations
Next ==
    \/ \E k \in Armatures : Load(k)
    \/ Store
    \/ \E i \in 1 .. 4 : \E value \in Positions : Mutate(i, "position", value)
    \/ \E i \in 1 .. 4 : \E value \in Rotations : Mutate(i, "rotation", value)
    \/ \E i \in 1 .. 4 : \E value \in Scales : Mutate(i, "scale", value)
    \/ Undo
    \/ Redo
    \/ ClearUndoHistory
    \/ MoveToOrigin
    \/ \E i \in 1 .. 4 : \E t \in { "translate", "rotate" } : ApplyMirrorMode(i, t)

Spec == Init /\ [][Next]_vars

\* the edit-skeleton step edited, undone and asked for its rest-pose corrections
NextRest ==
    \/ \E k \in Armatures : Load(k)
    \/ Store
    \/ \E i \in 1 .. 4 : \E value \in Positions : Mutate(i, "position", value)
    \/ \E i \in 1 .. 4 : \E value \in Rotations : Mutate(i, "rotation", value)
    \/ \E i \in 1 .. 4 : \E value \in Scales : Mutate(i, "scale", value)
    \/ Undo
    \/ Redo
    \/ GetRestPoseRotationCorrections

Rest == Init /\ [][NextRest]_vars

\* the edit-skeleton step driven by the snap-to-volume drag handler
NextDrag ==
    \/ \E k \in Armatures : Load(k)
    \/ \E b \in 0 .. 4 : \E d \in Distances : \E hit \in SnapTargets \cup { NoHit } :
         HandleMouseDown(b, d, hit)
    \/ \E hit \in SnapTargets \cup { NoHit } : HandleDragging(hit)
    \/ HandleMouseUp
    \/ \E value \in BOOLEAN : SetMirrorMode(value)
    \/ Undo
    \/ Redo
    \/ MoveToOrigin

Drag == Init /\ [][NextDrag]_vars

----------------------------------------------------------------------------
(* The BVH import: the importer called on a file, the import step of the    *)
(* main page, and the import page with its storage                          *)

\* BVHImporter.importFromFile(file), called on its own
ImportFromFile(file) ==
    /\ import_calls < MaxImports
    /\ import_calls' = import_calls + 1
    /\ LET r == importFromFile(file, import_calls + 1)
       IN  last' = Ran("importFromFile", << file >>, r.calls, r.dialogs)
    /\ UNCHANGED << step_import, import_bootstrap, skeleton_storage >>
    /\ UNCHANGED handlers
    /\ UNCHANGED edit_vars

\* StepImport.begin()
Begin ==
    /\ step_import' = begin(step_import)
    /\ last' = Ran("begin", << >>, << >>, << >>)
    /\ UNCHANGED << import_calls, import_bootstrap, skeleton_storage >>
    /\ UNCHANGED handlers
    /\ UNCHANGED edit_vars

\* StepImport.dispose()
Dispose ==
    /\ step_import' = dispose(step_import)
    /\ last' = Ran("dispose", << >>, << >>, << >>)
    /\ UNCHANGED << import_calls, import_bootstrap, skeleton_storage >>
    /\ UNCHANGED handlers
    /\ UNCHANGED edit_vars

\* the 'change' listener StepImport puts on the BVH file input
ImportBVHChange(file) ==
    /\ step_import.added_event_listeners
    /\ import_calls < MaxImports
    /\ IF file = NoFile
       THEN /\ last' = Ran("import_bvh_change", << file >>, << "no file" >>, << >>)
            /\ UNCHANGED << import_calls, step_import >>
       ELSE IF toLowerCase(file.name[2]) # ".bvh"
       THEN /\ last' = Ran("import_bvh_change", << file >>, << "no bvh file" >>,
                           << "Invalid file type" >>)
            /\ UNCHANGED << import_calls, step_import >>
       ELSE LET r == import_bvh_file(file, import_calls + 1, step_import)
            IN  /\ step_import' = r.step
                /\ import_calls' = import_calls + 1
                /\ last' = Ran("import_bvh_change", << file >>,
                               << IF r.threw THEN "failed" ELSE "imported" >>,
                               r.events)
    /\ UNCHANGED << import_bootstrap, skeleton_storage >>
    /\ UNCHANGED handlers
    /\ UNCHANGED edit_vars

\* the 'change' listener ImportBootstrap puts on the BVH file input, which
\* awaits handleBVHImport(files[0]); writable: localStorage accepts a write
HandleBVHImport(file, writable) ==
    /\ import_calls < MaxImports
    /\ LET r == handleBVHImport(file, import_calls + 1, writable,
                                import_bootstrap, skeleton_storage)
       IN  /\ import_bootstrap' = r.page
           /\ skeleton_storage' = r.storage
           /\ last' = Ran("handleBVHImport", << file, writable >>,
                          << r.ended >>, r.events)
    /\ import_calls' = import_calls + 1
    /\ UNCHANGED step_import
    /\ UNCHANGED handlers
    /\ UNCHANGED edit_vars

NextImport ==
    \/ \E file \in Files : ImportFromFile(file)
    \/ Begin
    \/ Dispose
    \/ \E file \in Files \cup { NoFile } : ImportBVHChange(file)
    \/ \E file \in Files : \E writable \in BOOLEAN : HandleBVHImport(file, writable)

Import == Init /\ [][NextImport]_vars

\* BVHImporter.parseBVHText(text), called on its own
ParseBVHText(text) ==
    /\ import_calls < MaxImports
    /\ import_calls' = import_calls + 1
    /\ LET r == parseBVHText(text, import_calls + 1)
       IN  last' = Ran("parseBVHText", << text >>, << r >>, << >>)
    /\ UNCHANGED << step_import, import_bootstrap, skeleton_storage >>
    /\ UNCHANGED handlers
    /\ UNCHANGED edit_vars

\* BVHImporter.createArmatureFromSkeleton(skeleton), called on its own
CreateArmatureFromSkeleton(bones) ==
    /\ last' = Ran("createArmatureFromSkeleton", << bones >>,
                   << createArmatureFromSkeleton(bones, import_calls) >>, << >>)
    /\ UNCHANGED import_vars
    /\ UNCHANGED edit_vars

\* BVHImporter.findRootBone(skeleton), called on its own
FindRootBone(bones) ==
    /\ last' = Ran("findRootBone", << bones >>, << findRootBone(bones) >>, << >>)
    /\ UNCHANGED import_vars
    /\ UNCHANGED edit_vars

\* the names and the texts skeletons are stored with
StoredNames == { << "walk" >>, << "run" >> }
StoredTexts == { BVHText(2, ""), MalformedText("truncated motion data") }

\* SkeletonStorage.storeSkeletonFromBVH(name, bvhContent)
StoreSkeletonFromBVH(name, bvhContent, writable) ==
    /\ import_calls < MaxImports
    /\ import_calls' = import_calls + 1
    /\ LET r == storeSkeletonFromBVH(name, bvhContent, import_calls + 1, writable,
                                     skeleton_storage)
       IN  /\ skeleton_storage' = r.storage
           /\ last' = Ran("storeSkeletonFromBVH", << name, bvhContent, writable >>,
                          IF r.threw THEN << >> ELSE << import_calls + 1 >>,
                          IF r.threw THEN << r.error >> ELSE << >>)
    /\ UNCHANGED << step_import, import_bootstrap >>
    /\ UNCHANGED handlers
    /\ UNCHANGED edit_vars

\* SkeletonStorage.getSkeleton(id)
GetSkeleton(id) ==
    /\ import_calls < MaxImports
    /\ import_calls' = import_calls + 1
    /\ LET r == getSkeleton(id, import_calls + 1, skeleton_storage)
       IN  /\ skeleton_storage' = r.storage
           /\ last' = Ran("getSkeleton", << id >>, << r.value >>, << >>)
    /\ UNCHANGED << step_import, import_bootstrap >>
    /\ UNCHANGED handlers
    /\ UNCHANGED edit_vars

\* SkeletonStorage.removeSkeleton(id)
RemoveSkeleton(id, writable) ==
    /\ LET r == removeSkeleton(id, writable, skeleton_storage)
       IN  /\ skeleton_storage' = r.storage
           /\ last' = Ran("removeSkeleton", << id, writable >>,
                          IF r.threw THEN << >> ELSE << r.value >>, << >>)
    /\ UNCHANGED << import_calls, step_import, import_bootstrap >>
    /\ UNCHANGED handlers
    /\ UNCHANGED edit_vars

\* SkeletonStorage.clearAll()
ClearAll ==
    /\ skeleton_storage' = clearAll(skeleton_storage)
    /\ last' = Ran("clearAll", << >>, << >>, << >>)
    /\ UNCHANGED << import_calls, step_import, import_bootstrap >>
    /\ UNCHANGED handlers
    /\ UNCHANGED edit_vars

\* the page is left and entered again: a new SkeletonStorage, the same localStorage
Restart ==
    /\ skeleton_storage' = Restarted(skeleton_storage)
    /\ last' = Ran("restart", << >>, << >>, << >>)
    /\ UNCHANGED << import_calls, step_import, import_bootstrap >>
    /\ UNCHANGED handlers
    /\ UNCHANGED edit_vars

\* the storage used through its own operations
NextStorage ==
    \/ \E name \in StoredNames : \E bvhContent \in StoredTexts : \E writable \in BOOLEAN :
         StoreSkeletonFromBVH(name, bvhContent, writable)
    \/ \E id \in 1 .. MaxImports : GetSkeleton(id)
    \/ \E id \in 1 .. MaxImports : \E writable \in BOOLEAN : RemoveSkeleton(id, writable)
    \/ ClearAll
    \/ Restart

Storage == Init /\ [][NextStorage]_vars

\* the calls of handleBVHImport that are awaiting
InFlight == { i \in 1 .. Len(handlers) : handlers[i].at # "done" }

\* the calls whose awaited promise settles without a task of its own: the
\* continuation is the next job to run, before any event is handled
MicrotaskPending ==
    { i \in InFlight :
        handlers[i].at \in { "storeSkeletonFromBVH", "add_preview_skeleton_from_bvh" } }

\* the place of the next call to end among those that have ended
NextPlace == Len(handlers) - Cardinality(InFlight) + 1

\* the 'change' listener of the import page calls handleBVHImport(file), which
\* runs to its first await
StartHandleBVHImport(file) ==
    /\ import_calls < MaxImports
    /\ Cardinality(InFlight) < MaxHandlers
    /\ MicrotaskPending = { }
    /\ import_calls' = import_calls + 1
    /\ handlers' = Append(handlers, Handler(file, import_calls + 1, InFlight # { }))
    /\ last' = Ran("handleBVHImport", << Len(handlers) + 1 >>,
                   << "readFileAsText" >>, << >>)
    /\ UNCHANGED << step_import, import_bootstrap, skeleton_storage >>
    /\ UNCHANGED edit_vars

\* the FileReader of readFileAsText fires, and call i runs to its next await
ReadFileAsTextSettles(i) ==
    /\ i \in InFlight
    /\ handlers[i].at = "readFileAsText"
    /\ MicrotaskPending = { }
    /\ LET r == handleBVHImport_after_readFileAsText(handlers[i], NextPlace,
                                                     import_bootstrap)
       IN  /\ handlers' = [ handlers EXCEPT ![i] = r.handler ]
           /\ import_bootstrap' = r.page
           /\ last' = Ran("handleBVHImport", << i >>, << r.handler.at >>, r.events)
    /\ UNCHANGED << import_calls, step_import, skeleton_storage >>
    /\ UNCHANGED edit_vars

\* the FileReader of importFromFile fires, and call i runs to its next await
ImportFromFileSettles(i) ==
    /\ i \in InFlight
    /\ handlers[i].at = "importFromFile"
    /\ MicrotaskPending = { }
    /\ LET r == handleBVHImport_after_importFromFile(handlers[i], NextPlace,
                                                     import_bootstrap)
       IN  /\ handlers' = [ handlers EXCEPT ![i] = r.handler ]
           /\ import_bootstrap' = r.page
           /\ last' = Ran("handleBVHImport", << i >>, << r.handler.at >>, r.events)
    /\ UNCHANGED << import_calls, step_import, skeleton_storage >>
    /\ UNCHANGED edit_vars

\* storeSkeletonFromBVH returns, and call i runs to its next await
StoreSkeletonFromBVHSettles(i) ==
    /\ i \in MicrotaskPending
    /\ handlers[i].at = "storeSkeletonFromBVH"
    /\ LET r == handleBVHImport_after_storeSkeletonFromBVH(
                  handlers[i], NextPlace, TRUE, import_bootstrap, skeleton_storage)
       IN  /\ handlers' = [ handlers EXCEPT ![i] = r.handler ]
           /\ import_bootstrap' = r.page
           /\ skeleton_storage' = r.storage
           /\ last' = Ran("handleBVHImport", << i >>, << r.handler.at >>, r.events)
    /\ UNCHANGED << import_calls, step_import >>
    /\ UNCHANGED edit_vars

\* add_preview_skeleton_from_bvh returns, and call i runs to its end
AddPreviewSkeletonFromBVHSettles(i) ==
    /\ i \in MicrotaskPending
    /\ handlers[i].at = "add_preview_skeleton_from_bvh"
    /\ LET r == handleBVHImport_after_add_preview_skeleton_from_bvh(
                  handlers[i], NextPlace, import_bootstrap, skeleton_storage)
       IN  /\ handlers' = [ handlers EXCEPT ![i] = r.handler ]
           /\ import_bootstrap' = r.page
           /\ last' = Ran("handleBVHImport", << i >>, << r.handler.at >>, r.events)
    /\ UNCHANGED << import_calls, step_import, skeleton_storage >>
    /\ UNCHANGED edit_vars

\* the import page with several files chosen one after the other
NextConcurrent ==
    \/ \E file \in Files : StartHandleBVHImport(file)
    \/ \E i \in 1 .. MaxImports : ReadFileAsTextSettles(i)
    \/ \E i \in 1 .. MaxImports : ImportFromFileSettles(i)
    \/ \E i \in 1 .. MaxImports : StoreSkeletonFromBVHSettles(i)
    \/ \E i \in 1 .. MaxImports : AddPreviewSkeletonFromBVHSettles(i)

Concurrent == Init /\ [][NextConcurrent]_vars

\* the names of the bones of the skeletons mirroring is tried on
MirrorNames ==
    { << "Spine" >>, << "Arm" >>, << "Left", "Arm" >>, << "Right", "Arm" >>,
      << "mixamorig_", "Arm", "_L" >> }

\* skeletons of three bones, a root and two children, named in every way and
\* each bone with a position and an orientation of its own
MirrorSkeletons ==
    { << [ NewBone(names[1], 0, V3(1, 1, 0)) EXCEPT !.rotation = V3(0, 0, 1) ],
         [ NewBone(names[2], 1, V3(2, 1, 1)) EXCEPT !.rotation = V3(1, 2, 3) ],
         [ NewBone(names[3], 1, V3(3, 2, 1)) EXCEPT !.rotation = V3(2, 1, 0) ] >> :
      names \in [ 1 .. 3 -> MirrorNames ] }

\* a StepEditSkeleton holding one of these skeletons
MirrorInit ==
    /\ threejs_skeleton \in MirrorSkeletons
    /\ skeleton_id = 1
    /\ original_bone_transforms = store_bone_transforms(threejs_skeleton)
    /\ Init!4 /\ Init!5 /\ Init!6 /\ Init!7 /\ Init!8 /\ Init!9 /\ Init!10
    /\ Init!11 /\ Init!12 /\ Init!13
    /\ Init!14 /\ Init!15 /\ Init!16 /\ Init!17 /\ Init!18 /\ Init!19

\* apply_mirror_mode applied to the bones of these skeletons
NextMirror ==
    \E i \in 1 .. 3 : \E t \in { "translate", "rotate" } : ApplyMirrorMode(i, t)

Mirror == MirrorInit /\ [][NextMirror]_vars

\* the meshes and the intersection points the volume center is computed for:
\* a strip of vertices 0.1 apart with one vertex far away, alone, without a
\* position attribute or without a geometry, turned and moved in the world
VolumeVertices == { V3(0, 0, 0), V3(20, 0, 0), V3(20, 20, 0), V3(40, 0, 10), V3(200, 0, 0) }
VolumeMeshes ==
    { Mesh(geometry, vertices, Matrix4(rotation, position)) :
        geometry \in { "position" },
        vertices \in { VolumeVertices, { V3(200, 0, 0) } },
        rotation \in { V3(0, 0, 0), V3(0, 0, 1), V3(1, 2, 0) },
        position \in { Origin, V3(100, 0, -50) } }
      \cup { Mesh(geometry, { }, Matrix4(V3(0, 0, 1), V3(100, 0, -50))) :
               geometry \in { "no position", "no geometry" } }
VolumePoints ==
    { applyMatrix4(p, Matrix4(rotation, position)) :
        p \in { V3(10, 0, 0), V3(50, 0, 0), V3(20, 10, 0), V3(100, 100, 0) },
        rotation \in { V3(0, 0, 0), V3(0, 0, 1), V3(1, 2, 0) },
        position \in { Origin, V3(100, 0, -50) } }

\* SnapToVolumeHandler.calculate_local_volume_center(mesh, intersection_point)
CalculateLocalVolumeCenter(mesh, intersection_point) ==
    /\ last' = Ran("calculate_local_volume_center", << mesh, intersection_point >>,
                   << calculate_local_volume_center(mesh, intersection_point) >>, << >>)
    /\ UNCHANGED import_vars
    /\ UNCHANGED edit_vars

NextVolume ==
    \E mesh \in VolumeMeshes : \E intersection_point \in VolumePoints :
      CalculateLocalVolumeCenter(mesh, intersection_point)

Volume == Init /\ [][NextVolume]_vars

\* the skeletons the correction solver is tried on: a single bone, a chain, a
\* chain whose second bone sits on the first, and the first armature
SolverSkeletons ==
    { << NewBone(<< "Hips" >>, 0, V3(0, 1, 0)) >>,
      << NewBone(<< "Hips" >>, 0, V3(0, 1, 0)),
         NewBone(<< "Spine" >>, 1, V3(0, 2, 0)),
         NewBone(<< "Head" >>, 2, V3(0, 1, 0)) >>,
      << NewBone(<< "Hips" >>, 0, V3(0, 1, 0)),
         NewBone(<< "Spine" >>, 1, Origin),
         NewBone(<< "Head" >>, 2, V3(0, 1, 0)) >>,
      ArmatureBones(1) }

\* the local positions an edit gives a bone there
SolverPositions == { Origin, V3(1, 1, 0) }

\* a StepEditSkeleton into which one of these skeletons has been loaded
SolverInit ==
    /\ threejs_skeleton \in SolverSkeletons
    /\ skeleton_id = 1
    /\ original_bone_transforms = store_bone_transforms(threejs_skeleton)
    /\ Init!4 /\ Init!5 /\ Init!6 /\ Init!7 /\ Init!8 /\ Init!9 /\ Init!10
    /\ Init!11 /\ Init!12 /\ Init!13
    /\ Init!14 /\ Init!15 /\ Init!16 /\ Init!17 /\ Init!18 /\ Init!19

\* the skeleton edited and asked for its rest-pose corrections
NextSolver ==
    \/ \E i \in 1 .. 4 : \E value \in SolverPositions : Mutate(i, "position", value)
    \/ \E i \in 1 .. 4 : \E value \in Rotations : Mutate(i, "rotation", value)
    \/ GetRestPoseRotationCorrections

Solver == SolverInit /\ [][NextSolver]_vars

\* the skeleton loaded, snapped, mirrored, stored, undone and redone, and its
\* corrections computed
NextSnapshot ==
    \/ \E k \in Armatures : Load(k)
    \/ Store
    \/ Undo
    \/ Redo
    \/ \E i \in 1 .. 4 : \E t \in { "translate", "rotate" } : ApplyMirrorMode(i, t)
    \/ \E b \in 2 .. 3 : \E hit \in SnapTargets : HandleMouseDown(b, hover_distance, hit)
    \/ \E hit \in SnapTargets : HandleDragging(hit)
    \/ HandleMouseUp
    \/ GetRestPoseRotationCorrections

Snapshot == Init /\ [][NextSnapshot]_vars

\* the pointer events of a snap drag on the first armature, and the undo and
\* redo that follow them
NextPointer ==
    \/ Load(1)
    \/ \E b \in 0 .. 4 : \E d \in Distances : \E hit \in SnapTargets \cup { NoHit } :
         HandleMouseDown(b, d, hit)
    \/ \E hit \in SnapTargets \cup { NoHit } : HandleDragging(hit)
    \/ HandleMouseUp
    \/ \E value \in BOOLEAN : SetMirrorMode(value)
    \/ Undo
    \/ Redo

Pointer == Init /\ [][NextPointer]_vars

\* the step begun and left, its skeleton edited and its buttons clicked
NextButtons ==
    \/ \E k \in Armatures : Load(k)
    \/ Store
    \/ \E i \in 1 .. 4 : \E value \in Positions : Mutate(i, "position", value)
    \/ Undo
    \/ Redo
    \/ ClearUndoHistory
    \/ BeginEditSkeleton
    \/ CleanupOnExitStep
    \/ \E button \in { "undo", "redo" } : ClickButton(button)

Buttons == Init /\ [][NextButtons]_vars

\* the importer applied to texts and to bone lists
NextParse ==
    \/ \E text \in Texts : ParseBVHText(text)
    \/ \E bones \in Skeletons : CreateArmatureFromSkeleton(bones)
    \/ \E bones \in Skeletons : FindRootBone(bones)

Parse == Init /\ [][NextParse]_vars

----------------------------------------------------------------------------
(* The scripted run: a skeleton is loaded, then N times the state is stored  *)
(* and a bone moved, then undo is called until it fails. The first           *)
(* FreeScript moves are arbitrary; each later one puts the root at an x that *)
(* no earlier state had, so that every capture differs from the others.      *)

HistoryInit ==
    /\ Init!1 /\ Init!2 /\ Init!3 /\ Init!4 /\ Init!5 /\ Init!6
    /\ Init!7 /\ Init!8 /\ Init!9 /\ Init!10 /\ Init!11
    /\ script = [ ScriptOff EXCEPT !.phase = "load" ]
    /\ Init!13
    /\ Init!14 /\ Init!15 /\ Init!16 /\ Init!17 /\ Init!18 /\ Init!19

ScriptLoad(k) ==
    /\ script.phase = "load"
    /\ LET r == load_original_armature_from_model(k, undo_stack, redo_stack)
       IN  /\ threejs_skeleton' = r.bones
           /\ undo_stack' = r.undo
           /\ redo_stack' = r.redo
           /\ original_bone_transforms' = r.original
           /\ script' = [ script EXCEPT !.phase = "store", !.base = r.bones ]
    /\ skeleton_id' = skeleton_id + 1
    /\ last' = Ran("load", << k >>, << >>, << >>)
    /\ UNCHANGED << mirror_mode_enabled, currently_selected_bone, is_dragging,
                    controls_enabled, edits >>
    /\ UNCHANGED drag_log
    /\ ui' = dispatch_state_change_event(ui, undo_stack', redo_stack')
    /\ UNCHANGED import_vars

ScriptStore ==
    /\ script.phase = "store"
    /\ script.stored < MaxScript
    /\ LET r == store_bone_state_for_undo(threejs_skeleton, skeleton_id,
                                          undo_stack, redo_stack)
       IN  /\ undo_stack' = r.undo
           /\ redo_stack' = r.redo
    /\ script' = [ script EXCEPT
                     !.phase = "mutate",
                     !.captures = Append(@, Capture(threejs_skeleton, skeleton_id)) ]
    /\ last' = Ran("store", << >>, << >>, << >>)
    /\ UNCHANGED << threejs_skeleton, skeleton_id, original_bone_transforms,
                    mirror_mode_enabled, currently_selected_bone, is_dragging,
                    controls_enabled, edits >>
    /\ UNCHANGED drag_log
    /\ ui' = dispatch_state_change_event(ui, undo_stack', redo_stack')
    /\ UNCHANGED import_vars

ScriptMutate(i, value) ==
    /\ script.phase = "mutate"
    /\ script.stored < FreeScript
    /\ threejs_skeleton' = [ threejs_skeleton EXCEPT ![i].position = value ]
    /\ script' = [ script EXCEPT !.phase = "store", !.stored = @ + 1 ]
    /\ last' = Ran("mutate", << >>, << >>, << >>)
    /\ UNCHANGED << skeleton_id, original_bone_transforms, undo_stack, redo_stack,
                    mirror_mode_enabled, currently_selected_bone, is_dragging,
                    controls_enabled, edits >>
    /\ UNCHANGED drag_log
    /\ UNCHANGED ui
    /\ UNCHANGED import_vars

ScriptMove ==
    /\ script.phase = "mutate"
    /\ script.stored >= FreeScript
    /\ threejs_skeleton' =
         [ threejs_skeleton EXCEPT ![1].position = V3(10 + script.stored, 0, 0) ]
    /\ script' = [ script EXCEPT !.phase = "store", !.stored = @ + 1 ]
    /\ last' = Ran("mutate", << >>, << >>, << >>)
    /\ UNCHANGED << skeleton_id, original_bone_transforms, undo_stack, redo_stack,
                    mirror_mode_enabled, currently_selected_bone, is_dragging,
                    controls_enabled, edits >>
    /\ UNCHANGED drag_log
    /\ UNCHANGED ui
    /\ UNCHANGED import_vars

ScriptUndo ==
    /\ script.phase \in { "store", "undo" }
    /\ script.stored >= 1
    /\ script.undone <= script.stored
    /\ LET r == undo_bone_transformation(threejs_skeleton, skeleton_id,
                                         undo_stack, redo_stack)
       IN  /\ threejs_skeleton' = r.bones
           /\ undo_stack' = r.undo
           /\ redo_stack' = r.redo
           /\ last' = Ran("undo", << >>, << r.result >>, r.events)
           /\ script' = [ script EXCEPT !.phase = "undo", !.undone = @ + 1,
                                        !.all_ok = @ /\ r.result ]
    /\ UNCHANGED << skeleton_id, original_bone_transforms, mirror_mode_enabled,
                    currently_selected_bone, is_dragging, controls_enabled, edits >>
    /\ UNCHANGED drag_log
    /\ ui' = IF last'.returned[1]
             THEN dispatch_state_change_event(ui, undo_stack', redo_stack')
             ELSE ui
    /\ UNCHANGED import_vars

NextHistory ==
    \/ \E k \in Armatures : ScriptLoad(k)
    \/ ScriptStore
    \/ \E i \in 1 .. 4 : \E value \in Positions \cup SnapTargets : ScriptMutate(i, value)
    \/ ScriptMove
    \/ ScriptUndo

History == HistoryInit /\ [][NextHistory]_vars

----------------------------------------------------------------------------
(* Properties *)

Transforms(bones) == store_bone_transforms(bones)

\* the other bones of the skeleton that share a bone's base name
Counterparts(bones, i) ==
    { j \in 1 .. Len(bones) :
        /\ j # i
        /\ calculate_bone_base_name(bones[j].name)
             = calculate_bone_base_name(bones[i].name) }

LastN(seq, n) ==
    SubSeq(seq, IF Len(seq) > n THEN Len(seq) - n + 1 ELSE 1, Len(seq))

Min(a, b) == IF a < b THEN a ELSE b

\* C1: undo on an empty undo stack returns false, changes no bone transform
\* and neither stack, and dispatches no 'skeletonTransformed' event; the same
\* for redo on an empty redo stack.
C1_EmptyHistoryIsNoOp ==
    [][ /\ (last'.op = "undo" /\ undo_stack = << >>) =>
              /\ last'.returned = << FALSE >>
              /\ last'.events = << >>
              /\ UNCHANGED << threejs_skeleton, undo_stack, redo_stack >>
        /\ (last'.op = "redo" /\ redo_stack = << >>) =>
              /\ last'.returned = << FALSE >>
              /\ last'.events = << >>
              /\ UNCHANGED << threejs_skeleton, undo_stack, redo_stack >>
      ]_vars

\* an undo has just failed on an edited skeleton whose redo stack holds a state
C1_Witness ==
    /\ last = Ran("undo", << >>, << FALSE >>, << >>)
    /\ redo_stack # << >>
    /\ Transforms(threejs_skeleton) # original_bone_transforms

\* C2: after N <= 50 steps of store-then-mutate, N undo calls all return true
\* and leave every bone's transform as it was before the first mutation.
C2_UndoAllRestoresBase ==
    ( /\ script.phase = "undo"
      /\ script.undone = script.stored
      /\ script.stored <= 50 )
    => ( script.all_ok /\ threejs_skeleton = script.base )

\* fifty store/mutate steps have been undone by fifty undo calls
C2_Witness ==
    /\ script.phase = "undo"
    /\ script.stored = 50
    /\ script.undone = 50
    /\ threejs_skeleton = script.base

\* C3: with a non-empty undo stack, undo followed at once by redo leaves the
\* bone transforms and both stacks as they were before the undo.
C3_RedoAfterUndoIsIdentity ==
    can_undo(undo_stack) =>
        LET u == undo_bone_transformation(threejs_skeleton, skeleton_id,
                                          undo_stack, redo_stack)
            r == redo_bone_transformation(u.bones, skeleton_id, u.undo, u.redo)
        IN  /\ u.result
            /\ r.result
            /\ r.bones = threejs_skeleton
            /\ r.undo = undo_stack
            /\ r.redo = redo_stack

\* a redo has just re-applied an edit that an undo had reverted
C3_Witness ==
    /\ last.op = "redo"
    /\ last.returned = << TRUE >>
    /\ can_undo(undo_stack)
    /\ Transforms(threejs_skeleton) # Top(undo_stack).transforms

\* C4: a store empties the redo stack, so that a redo right after it returns
\* false, and only an undo makes the redo stack non-empty again.
C4_StoreClearsRedo ==
    [][ /\ last'.op = "store" =>
              /\ redo_stack' = << >>
              /\ ~redo_bone_transformation(threejs_skeleton', skeleton_id',
                                           undo_stack', redo_stack').result
        /\ (redo_stack = << >> /\ redo_stack' # << >>) => last'.op = "undo"
      ]_vars

\* a store has just been made in a state that had an undone edit to redo
C4_Witness ==
    /\ last.op = "store"
    /\ last.arg[1] > 0
    /\ redo_stack = << >>

\* C5: both stacks hold at most 50 snapshots; a store on a full undo stack
\* drops the oldest entry and keeps the 50 most recent captures in order, so
\* that at most 50 undo calls in a row succeed.
C5_HistoryIsBounded ==
    /\ Len(undo_stack) <= 50
    /\ Len(redo_stack) <= 50
    /\ script.phase \in { "store", "mutate" } =>
          undo_stack = LastN(script.captures, 50)
    /\ script.phase = "undo" =>
          ( script.all_ok <=> script.undone <= Min(script.stored, 50) )

\* the 51st store has been made: the first capture is gone, 50 are kept
C5_Witness ==
    /\ script.phase = "mutate"
    /\ Len(script.captures) = 51
    /\ Len(undo_stack) = 50
    /\ undo_stack[1] = script.captures[2]

\* C6: the history holds no snapshot captured from a skeleton loaded earlier,
\* so that no undo or redo restores one onto the skeleton loaded last.
C6_NoHistoryOfAnEarlierSkeleton ==
    /\ \A n \in 1 .. Len(undo_stack) : undo_stack[n].skeleton = skeleton_id
    /\ \A n \in 1 .. Len(redo_stack) : redo_stack[n].skeleton = skeleton_id

\* a second skeleton has just been loaded while the history held snapshots
C6_Witness ==
    /\ last.op = "load"
    /\ skeleton_id = 2
    /\ last.arg[2] > 0

\* C7: clear_undo_history empties both stacks, so that the next undo and the
\* next redo return false, and changes no bone transform.
C7_ClearEmptiesHistory ==
    [][ last'.op = "clear" =>
          /\ undo_stack' = << >>
          /\ redo_stack' = << >>
          /\ threejs_skeleton' = threejs_skeleton
          /\ ~undo_bone_transformation(threejs_skeleton', skeleton_id',
                                       undo_stack', redo_stack').result
          /\ ~redo_bone_transformation(threejs_skeleton', skeleton_id',
                                       undo_stack', redo_stack').result
      ]_vars

\* a clear has just been made in a state where both stacks held a snapshot
C7_Witness ==
    /\ last.op = "clear"
    /\ last.arg[1] > 0
    /\ last.arg[2] > 0
    /\ undo_stack = << >>
    /\ redo_stack = << >>

\* C8: restoring the snapshot just captured from a skeleton leaves the
\* position, rotation and scale of every bone unchanged.
C8_RestoreOfCaptureIsNoOp ==
    restore_bone_transforms(threejs_skeleton, store_bone_transforms(threejs_skeleton))
      = threejs_skeleton

\* a loaded skeleton with an edited bone
C8_Witness ==
    /\ skeleton_id > 0
    /\ Transforms(threejs_skeleton) # original_bone_transforms
    /\ \E i \in BoneIndices : threejs_skeleton[i].scale # V3(1, 1, 1)

\* C9 (as claimed): every mutation of a bone's transform made by the
\* move-to-origin button or by the mouse-down of a snap drag is preceded by a
\* store, so that one undo reverts it.
C9_UserMutationIsUndoable ==
    [][ ( /\ last'.op \in { "move_to_origin", "mouse_down" }
          /\ threejs_skeleton' # threejs_skeleton )
        => /\ can_undo(undo_stack')
           /\ undo_bone_transformation(threejs_skeleton', skeleton_id',
                                       undo_stack', redo_stack').bones
                = threejs_skeleton
      ]_vars

\* C10: apply_mirror_mode(bone, 'translate') on a bone with one counterpart
\* sets the counterpart's position to (-x, y, z) of the bone's position and
\* leaves the counterpart's rotation and scale unchanged.
C10_MirrorTranslate ==
    [][ ( last'.op = "apply_mirror_mode" /\ last'.arg[2] = "translate" ) =>
          LET i == last'.arg[1]
              p == threejs_skeleton[i].position
          IN  \A j \in Counterparts(threejs_skeleton, i) :
                Counterparts(threejs_skeleton, i) = { j } =>
                  /\ threejs_skeleton'[j].position = V3(-p[1], p[2], p[3])
                  /\ threejs_skeleton'[j].rotation = threejs_skeleton[j].rotation
                  /\ threejs_skeleton'[j].scale = threejs_skeleton[j].scale
      ]_vars

\* the left arm was moved and mirrored onto the right arm
C10_Witness ==
    /\ last = Ran("apply_mirror_mode", << 3, "translate" >>, << >>, << >>)
    /\ threejs_skeleton[3].name = << "Left", "Arm" >>
    /\ threejs_skeleton[4].name = << "Right", "Arm" >>
    /\ threejs_skeleton[3].position = V3(1, 1, 0)
    /\ threejs_skeleton[4].position = V3(-1, 1, 0)

\* C11: apply_mirror_mode on a bone that has no other bone of the same base
\* name changes no bone's transform, for 'translate' and for 'rotate' alike
\* (and the call completes: it is a step like any other).
C11_NoCounterpartIsNoOp ==
    [][ ( /\ last'.op = "apply_mirror_mode"
          /\ Counterparts(threejs_skeleton, last'.arg[1]) = {} )
        => threejs_skeleton' = threejs_skeleton
      ]_vars

\* the spine was rotated, then mirrored with 'rotate': the arms, whose base
\* name is not the spine's, kept their rest rotation
C11_Witness ==
    /\ last = Ran("apply_mirror_mode", << 2, "rotate" >>, << >>, << >>)
    /\ threejs_skeleton[2].name = << "Spine" >>
    /\ Counterparts(threejs_skeleton, 2) = {}
    /\ threejs_skeleton[2].rotation = V3(1, 2, 3)
    /\ \A j \in { 1, 3, 4 } : threejs_skeleton[j].rotation = V3(0, 0, 0)

\* C12: apply_mirror_mode(bone, 'rotate') on a bone with a counterpart sets
\* the counterpart's orientation to the one of the Euler angles (rx, -ry, -rz)
\* of the bone and leaves the counterpart's position unchanged.
C12_MirrorRotate ==
    [][ ( last'.op = "apply_mirror_mode" /\ last'.arg[2] = "rotate" ) =>
          LET i == last'.arg[1]
              r == threejs_skeleton[i].rotation
          IN  \A j \in Counterparts(threejs_skeleton, i) :
                Counterparts(threejs_skeleton, i) = { j } =>
                  /\ threejs_skeleton'[j].rotation = V3(r[1], -r[2], -r[3])
                  /\ threejs_skeleton'[j].position = threejs_skeleton[j].position
      ]_vars

\* the left arm was rotated and mirrored onto the right arm
C12_Witness ==
    /\ last = Ran("apply_mirror_mode", << 3, "rotate" >>, << >>, << >>)
    /\ threejs_skeleton[3].name = << "Left", "Arm" >>
    /\ threejs_skeleton[4].name = << "Right", "Arm" >>
    /\ threejs_skeleton[3].rotation = V3(1, 2, 3)
    /\ threejs_skeleton[4].rotation = V3(1, -2, -3)

\* C13: a mouse-down or a mouse-move whose pointer ray hits no mesh (or finds
\* no mesh to test) changes no bone's local position, and mirroring is not
\* applied: every bone keeps its transform.
C13_NoHitMovesNoBone ==
    [][ ( \/ last'.op = "mouse_down" /\ last'.arg[2] = NoHit
          \/ last'.op = "dragging" /\ last'.arg[1] = NoHit )
        => threejs_skeleton' = threejs_skeleton
      ]_vars

\* a mouse-move of a drag has hit nothing, with mirror mode enabled, on a
\* selected bone whose counterpart is not at its mirrored position
C13_Witness ==
    /\ last = Ran("dragging", << NoHit >>, << >>, << >>)
    /\ is_dragging
    /\ mirror_mode_enabled
    /\ currently_selected_bone.skeleton = skeleton_id
    /\ LET i == currently_selected_bone.bone
           p == threejs_skeleton[i].position
       IN  \E j \in Counterparts(threejs_skeleton, i) :
             threejs_skeleton[j].position # V3(-p[1], p[2], p[3])

\* C14: in every drag exactly one undo snapshot is stored, at mouse-down and
\* of the pose before the first position change; no mouse-move and no
\* mouse-up stores another; one undo during or after the drag restores the
\* pose that existed at mouse-down.
C14_OneSnapshotPerDrag ==
    [][ /\ ( last'.op = "mouse_down" /\ last'.returned = << TRUE >> ) =>
              /\ Len(undo_stack') = Len(undo_stack) + 1
              /\ Top(undo_stack').transforms = Transforms(threejs_skeleton)
        /\ last'.op \in { "dragging", "mouse_up" } =>
              UNCHANGED << undo_stack, redo_stack >>
        /\ drag_log'.phase \in { "down", "up" } =>
              /\ Len(undo_stack') = drag_log'.undo_len + 1
              /\ LET u == undo_bone_transformation(threejs_skeleton', skeleton_id',
                                                   undo_stack', redo_stack')
                 IN  u.result /\ u.bones = drag_log'.pose
      ]_vars

\* a drag has ended with a mouse-up after it moved a bone and its counterpart
C14_Witness ==
    /\ last.op = "mouse_up"
    /\ drag_log.phase = "up"
    /\ Cardinality({ i \in BoneIndices :
                       threejs_skeleton[i].position # drag_log.pose[i].position }) = 2

\* C15 (as claimed): a mouse-down never selects the root bone, the first bone
\* of the skeleton, whatever its name: when the root is the closest bone no
\* bone is selected, no snapshot is stored and no drag starts.
C15_RootIsNeverSelected ==
    [][ ( last'.op = "mouse_down" /\ last'.arg[1] = 1 ) =>
          UNCHANGED << currently_selected_bone, undo_stack, redo_stack, is_dragging >>
      ]_vars

\* C16 (as claimed): a mouse-up changes no bone transform and no history
\* stack, and a mouse-move changes a bone's position only while is_dragging
\* is true, so never between a mouse-up and the next selecting mouse-down.
C16_NoSnapAfterMouseUp ==
    [][ /\ last'.op = "mouse_up" =>
              UNCHANGED << threejs_skeleton, undo_stack, redo_stack >>
        /\ ( /\ last'.op = "dragging"
             /\ \E i \in BoneIndices :
                  threejs_skeleton'[i].position # threejs_skeleton[i].position )
           => is_dragging
      ]_vars

\* the errors importFromFile makes for a source it could not read
ReadErrors == { Error("File read error"), Error("Failed to read file") }

FromOneImport(step) ==
    IF step.has_imported_skeleton
    THEN /\ step.loaded_armature.import > 0
         /\ step.loaded_animations # << >>
         /\ \A i \in 1 .. Len(step.loaded_animations) :
              step.loaded_animations[i].import = step.loaded_armature.import
    ELSE /\ step.loaded_armature = NewStepImport.loaded_armature
         /\ step.loaded_animations = << >>

\* C18: an import that fails in StepImport leaves loaded_armature,
\* loaded_animations, has_imported_skeleton and the proceed button as they
\* were and dispatches no 'skeletonImported' event; in every state
\* loaded_armature and loaded_animations come from the same successful import.
C18_FailedImportChangesNothing ==
    [][ /\ ( last'.op = "import_bvh_change" /\ last'.returned = << "failed" >> ) =>
              /\ step_import'.loaded_armature = step_import.loaded_armature
              /\ step_import'.loaded_animations = step_import.loaded_animations
              /\ step_import'.has_imported_skeleton = step_import.has_imported_skeleton
              /\ step_import'.dom_import_skeleton_button_disabled
                   = step_import.dom_import_skeleton_button_disabled
              /\ \A i \in 1 .. Len(last'.events) : last'.events[i] # "skeletonImported"
        /\ FromOneImport(step_import')
      ]_vars

\* an import has failed on a malformed text after an earlier one succeeded
C18_Witness ==
    /\ last.op = "import_bvh_change"
    /\ last.returned = << "failed" >>
    /\ last.arg[1].text.kind = "malformed"
    /\ step_import.has_imported_skeleton
    /\ step_import.loaded_armature.import = 1
    /\ step_import.dom_import_skeleton_button_disabled = "false"

\* C19 (as claimed): a storage write failure during handleBVHImport is shown
\* to the user and changes nothing: the page and the storage are as before,
\* and a currentPreviewArmature that is set is the preview the scene shows.
C19_StorageFailureChangesNothing ==
    [][ ( last'.op = "handleBVHImport" /\ last'.returned = << "store failed" >> ) =>
          /\ last'.events # << >>
          /\ import_bootstrap' = import_bootstrap
          /\ skeleton_storage' = skeleton_storage
          /\ import_bootstrap'.currentPreviewArmature # NoObject =>
               import_bootstrap'.preview = import_bootstrap'.currentPreviewArmature
      ]_vars

\* C20: get_rest_pose_rotation_corrections() on a skeleton whose bone
\* transforms equal the rest pose captured at load (nothing edited, or every
\* edit undone) returns an empty correction map.
C20_NoCorrectionAtRest ==
    [][ ( /\ last'.op = "get_rest_pose_rotation_corrections"
          /\ Transforms(threejs_skeleton) = original_bone_transforms )
        => last'.returned = << { } >>
      ]_vars

\* the corrections were computed after an edit of the skeleton was undone
C20_Witness ==
    /\ last = Ran("get_rest_pose_rotation_corrections", << >>, << { } >>, << >>)
    /\ skeleton_id > 0
    /\ Transforms(threejs_skeleton) = original_bone_transforms
    /\ redo_stack # << >>
    /\ Transforms(threejs_skeleton) # Top(redo_stack).transforms

\* the bones of a list that qualify as its root: no parent, or a parent that
\* is not in the list
Qualifying(bones) ==
    { i \in 1 .. Len(bones) :
        bones[i].parent = 0 \/ ~( \E k \in 1 .. Len(bones) : k = bones[i].parent ) }

\* C21: the result of every successful parse has the root bone first in
\* skeleton.bones, every other bone's parent in skeleton.bones, and an armature
\* whose only child is that root bone; a two-joint text with a motion frame
\* yields exactly 2 bones and exactly one clip.
C21_ParsedSkeletonInvariant ==
    ( last.op = "parseBVHText" /\ ~last.returned[1].threw ) =>
      LET text == last.arg[1]
          result == last.returned[1].value
          bones == result.skeleton
      IN  /\ Len(bones) > 0
          /\ 1 \in Qualifying(bones)
          /\ \A i \in 2 .. Len(bones) : bones[i].parent \in 1 .. Len(bones)
          /\ result.armature.children = << 1 >>
          /\ ( text.joints = 2 /\ text.clip # NoClip ) =>
               Len(bones) = 2 /\ Len(result.animations) = 1

\* a text of two joints and one clip has been parsed
C21_Witness ==
    /\ last.op = "parseBVHText"
    /\ last.arg[1] = BVHText(2, "walk")
    /\ ~last.returned[1].threw
    /\ Len(last.returned[1].value.skeleton) = 2
    /\ last.returned[1].value.armature.children = << 1 >>

\* C22: findRootBone returns the first bone, in traversal order, whose parent
\* is absent or not in the bone list; the first bone when no bone qualifies;
\* null only for an empty list, and only then the armature has no child.
C22_FindRootBone ==
    /\ last.op = "findRootBone" =>
         LET bones == last.arg[1]
             root == last.returned[1]
         IN  /\ Qualifying(bones) # { } =>
                  root \in Qualifying(bones) /\ \A k \in Qualifying(bones) : root <= k
             /\ ( Qualifying(bones) = { } /\ Len(bones) > 0 ) => root = 1
             /\ root = 0 <=> Len(bones) = 0
    /\ last.op = "createArmatureFromSkeleton" =>
         LET bones == last.arg[1]
             armature == last.returned[1]
         IN  /\ armature.children = << >> <=> Len(bones) = 0
             /\ Qualifying(bones) # { } =>
                  /\ Len(armature.children) = 1
                  /\ armature.children[1] \in Qualifying(bones)

\* findRootBone was given a list whose first bone has its parent in the list
\* and in which two later bones qualify, and returned the first of them
C22_Witness ==
    /\ last.op = "findRootBone"
    /\ Cardinality(Qualifying(last.arg[1])) = 2
    /\ 1 \notin Qualifying(last.arg[1])
    /\ last.returned = << 2 >>

\* C29: parseBVHText returns at most one clip; a clip the loader left without
\* a name is called 'Imported Animation', a named clip keeps its name, and
\* when the loader yields no clip the animations list is empty.
C29_ClipNames ==
    ( last.op = "parseBVHText" /\ ~last.returned[1].threw ) =>
      LET text == last.arg[1]
          animations == last.returned[1].value.animations
      IN  /\ Len(animations) <= 1
          /\ text.clip = NoClip <=> animations = << >>
          /\ text.clip = "" => animations[1].name = "Imported Animation"
          /\ text.clip \notin { "", NoClip } => animations[1].name = text.clip

\* a text whose clip has no name has been parsed
C29_Witness ==
    /\ last.op = "parseBVHText"
    /\ last.arg[1].kind = "bvh"
    /\ last.arg[1].clip = ""
    /\ Len(last.returned[1].value.animations) = 1

\* what getSkeleton(id) would return in a storage
Got(id, storage) == getSkeleton(id, 0, storage).value

\* C23: after storeSkeletonFromBVH(name, text) returned id, getSkeleton(id)
\* returns a skeleton with that id and name, from the cache and, with the
\* cache empty, from the stored text parsed again; getSkeleton returns
\* undefined for an id that was never given out and for one that
\* removeSkeleton or clearAll removed; reading and restarting change none of
\* these answers.
C23_StoredSkeletonIsFound ==
    [][ /\ ( last'.op = "storeSkeletonFromBVH" /\ last'.returned # << >> ) =>
              LET id == last'.returned[1]
              IN  /\ Got(id, skeleton_storage').id = id
                  /\ Got(id, skeleton_storage').name = last'.arg[1]
                  /\ Got(id, Restarted(skeleton_storage')).id = id
                  /\ Got(id, Restarted(skeleton_storage')).name = last'.arg[1]
        /\ ( last'.op = "removeSkeleton" /\ last'.returned = << TRUE >> ) =>
              /\ Got(last'.arg[1], skeleton_storage') = Undefined
              /\ Got(last'.arg[1], Restarted(skeleton_storage')) = Undefined
        /\ last'.op = "clearAll" =>
              \A id \in 1 .. MaxImports :
                Got(id, Restarted(skeleton_storage')) = Undefined
        /\ \A id \in 1 .. MaxImports + 1 :
              id > import_calls' => Got(id, skeleton_storage') = Undefined
        /\ last'.op = "getSkeleton" =>
              /\ last'.returned[1].id = Got(last'.arg[1], skeleton_storage).id
              /\ last'.returned[1].name = Got(last'.arg[1], skeleton_storage).name
        /\ last'.op \in { "getSkeleton", "restart" } =>
              \A id \in 1 .. MaxImports :
                /\ Got(id, skeleton_storage').id = Got(id, skeleton_storage).id
                /\ Got(id, skeleton_storage').name = Got(id, skeleton_storage).name
      ]_vars

\* a stored skeleton was read with the cache empty and built by a new parse
C23_Witness ==
    /\ last.op = "getSkeleton"
    /\ last.returned[1].id = last.arg[1]
    /\ last.returned[1].name = << "walk" >>
    /\ last.returned[1].armature.import > last.arg[1]
    /\ last.returned[1] \in skeleton_storage.skeletonCache

\* the calls of handleBVHImport that went through
Imported == { i \in 1 .. Len(handlers) : handlers[i].ended = "imported" }

Changed == { j \in BoneIndices : Transforms(threejs_skeleton')[j] # Transforms(threejs_skeleton)[j] }

\* C25: apply_mirror_mode changes the local transform of at most one bone,
\* which is not the selected bone and has the selected bone's base name; the
\* selected bone and all other bones keep their transforms, also when several
\* other bones share the base name.
C25_MirrorChangesOneBone ==
    [][ last'.op = "apply_mirror_mode" =>
          /\ Len(threejs_skeleton') = Len(threejs_skeleton)
          /\ Cardinality(Changed) <= 1
          /\ Changed \subseteq Counterparts(threejs_skeleton, last'.arg[1])
          /\ threejs_skeleton'[last'.arg[1]] = threejs_skeleton[last'.arg[1]]
      ]_vars

\* the mirror was applied to a bone with which two other bones share the base
\* name, and the last of them took the mirrored position
C25_Witness ==
    /\ last = Ran("apply_mirror_mode", << 1, "translate" >>, << >>, << >>)
    /\ edits = 1
    /\ threejs_skeleton[1].name = << "Left", "Arm" >>
    /\ threejs_skeleton[2].name = << "Right", "Arm" >>
    /\ threejs_skeleton[3].name = << "Arm" >>
    /\ threejs_skeleton[2].position = V3(2, 1, 1)
    /\ threejs_skeleton[3].position = V3(-1, 1, 0)

\* C27: the snap target is the center of the axis-aligned bounding box of
\* the struck mesh's vertices that lie within the search radius of the hit
\* point, both taken in the mesh's local space, mapped back to world space;
\* with no vertex within the radius, or no position data, it is the raw
\* intersection point.
C27_VolumeCenter ==
    last.op = "calculate_local_volume_center" =>
      LET mesh == last.arg[1]
          point == last.arg[2]
          target == last.returned[1]
          to_local(p) == applyMatrix4(p, invert(mesh.matrixWorld))
          within == { v \in mesh.vertices :
                        LengthSq(Sub(v, to_local(point))) < search_radius * search_radius }
      IN  IF mesh.geometry # "position" \/ within = { }
          THEN target = point
          ELSE \A a \in 1 .. 3 :
                 \E lo, hi \in within :
                   /\ \A w \in within : lo[a] <= w[a] /\ w[a] <= hi[a]
                   /\ 2 * to_local(target)[a] = lo[a] + hi[a]

\* the center was taken of four vertices of a turned and moved mesh, and is
\* neither the hit point nor a vertex
C27_Witness ==
    /\ last.op = "calculate_local_volume_center"
    /\ last.arg[1].matrixWorld = Matrix4(V3(0, 0, 1), V3(100, 0, -50))
    /\ last.arg[1].vertices = VolumeVertices
    /\ applyMatrix4(last.arg[2], invert(last.arg[1].matrixWorld)) = V3(20, 10, 0)
    /\ applyMatrix4(last.returned[1], invert(last.arg[1].matrixWorld)) = V3(20, 10, 5)

C28_SnapAndMirror ==
    [][ ( /\ \/ last'.op = "mouse_down" /\ last'.returned = << TRUE >>
                /\ last'.arg[2] # NoHit
             \/ last'.op = "dragging" /\ last'.arg[1] # NoHit
                /\ currently_selected_bone # NoBone
          /\ currently_selected_bone'.skeleton = skeleton_id )
        => LET i == currently_selected_bone'.bone
               p == threejs_skeleton'[i].position
           IN  /\ mirror_mode_enabled =>
                    \A j \in Counterparts(threejs_skeleton, i) :
                      Counterparts(threejs_skeleton, i) = { j } =>
                        threejs_skeleton'[j].position = V3(-p[1], p[2], p[3])
               /\ ~mirror_mode_enabled =>
                    \A j \in BoneIndices \ { i } :
                      threejs_skeleton'[j] = threejs_skeleton[j]
      ]_vars

\* with mirror mode disabled a mouse-move snapped the left arm, and the right
\* arm is not at the mirrored position
C28_Witness ==
    /\ last.op = "dragging"
    /\ last.arg[1] # NoHit
    /\ ~mirror_mode_enabled
    /\ currently_selected_bone.skeleton = skeleton_id
    /\ currently_selected_bone.bone = 3
    /\ threejs_skeleton[3].position = last.arg[1]
    /\ threejs_skeleton[4].position = ArmatureBones(skeleton_id)[4].position

\* the first child bone of bone i, 0 when it has none
FirstChild(bones, i) ==
    LET children == { j \in 1 .. Len(bones) : bones[j].parent = i }
    IN  IF children = { } THEN 0 ELSE CHOOSE j \in children : \A k \in children : j <= k

\* bone i has no child bone, or its first child bone is at its world position
WithoutDirection(bones, i) ==
    LET world == updateWorldMatrix(bones, Len(bones))
    IN  \/ FirstChild(bones, i) = 0
        \/ world[FirstChild(bones, i)].position = world[i].position

\* C30: the correction map has no entry for a bone without a child bone nor
\* for one whose first child bone is at the bone's own world position, in the
\* original or in the edited pose; a skeleton of a single bone yields the
\* empty map.
C30_NoCorrectionWithoutDirection ==
    [][ last'.op = "get_rest_pose_rotation_corrections" =>
          LET corrections == last'.returned[1]
              original == Bones(restore_bone_transforms(threejs_skeleton,
                                                        original_bone_transforms))
          IN  /\ \A i \in BoneIndices :
                   ( \/ WithoutDirection(threejs_skeleton, i)
                     \/ WithoutDirection(original, i) )
                   => \A c \in corrections : c.bone # threejs_skeleton[i].name
              /\ Len(threejs_skeleton) = 1 => corrections = { }
      ]_vars

\* the corrections of an edited chain hold an entry for the first bone and
\* none for the second, on which the third was put
C30_Witness ==
    /\ last.op = "get_rest_pose_rotation_corrections"
    /\ Len(threejs_skeleton) = 3
    /\ threejs_skeleton[3].position = Origin
    /\ { c.bone : c \in last.returned[1] } = { << "Hips" >> }

\* E composed with the correction c is O: column b of the product is the sum
\* over a of axis a of E times the entry (a, b) of c; with unnormalised axes
\* every term is divided by the squared length of the axis, which the
\* equation multiplies out
Composes(E, c, O) ==
    LET e == Axes(E)
        n == << LengthSq(e[1]), LengthSq(e[2]), LengthSq(e[3]) >>
    IN  \A b \in 1 .. 3 :
          Add(Add(Times(c[1][b] * n[2] * n[3], e[1]),
                  Times(c[2][b] * n[1] * n[3], e[2])),
              Times(c[3][b] * n[1] * n[2], e[3]))
            = Times(n[1] * n[2] * n[3], Axes(O)[b])

\* two rest rotations that are the same rotation: their axes point the same way
SameRotation(E, O) ==
    \A a \in 1 .. 3 : SameDirection(Axes(E)[a], Axes(O)[a])

\* C31: for every bone with a rest rotation in the original and in the edited
\* pose, the map has an entry for the bone exactly when the two rest rotations
\* differ, and the entry is the rotation that, composed after the edited rest
\* rotation, gives the original rest rotation
C31_CorrectionComposesToOriginal ==
    [][ ( last'.op = "get_rest_pose_rotation_corrections"
          /\ original_bone_transforms # << >> ) =>
          LET corrections == last'.returned[1]
              edited == threejs_skeleton
              rest == Bones(restore_bone_transforms(threejs_skeleton,
                                                    original_bone_transforms))
              edited_world == updateWorldMatrix(edited, Len(edited))
              rest_world == updateWorldMatrix(rest, Len(rest))
              forward == compute_forward_vector(rest, rest_world)
          IN  \A i \in 1 .. Len(edited) :
                LET E == compute_rest_rotation(edited, edited_world, i, forward)
                    O == compute_rest_rotation(rest, rest_world, i, forward)
                    entries == { c \in corrections : c.bone = edited[i].name }
                IN  ( E.defined /\ O.defined ) =>
                      /\ ( entries # { } ) <=> ~ SameRotation(E, O)
                      /\ \A c \in entries : Composes(E, c.correction.matrix, O)
      ]_vars

\* a bone turned away from its rest direction gets a correction
C31_Witness ==
    /\ last.op = "get_rest_pose_rotation_corrections"
    /\ Len(threejs_skeleton) = 3
    /\ threejs_skeleton[1].rotation # V3(0, 0, 0)
    /\ \E c \in last.returned[1] :
         /\ c.bone = << "Hips" >>
         /\ c.correction.matrix # << V3(0, 0, 0), V3(0, 0, 0), V3(0, 0, 0) >>
         /\ ~ SameRotation(c.correction.edited, c.correction.original)

C37_OneHandlerPerControl ==
    [][ /\ ui'.added_event_listeners =>
             /\ ui'.undo_click_listeners = 1
             /\ ui'.redo_click_listeners = 1
             /\ ui'.state_changed_listeners = 1
        /\ ( last'.op = "click" /\ ui.added_event_listeners ) =>
             LET button == last'.arg[1]
                 r == IF button = "undo"
                      THEN undo_bone_transformation(threejs_skeleton, skeleton_id,
                                                    undo_stack, redo_stack)
                      ELSE redo_bone_transformation(threejs_skeleton, skeleton_id,
                                                    undo_stack, redo_stack)
             IN  /\ Len(last'.returned) = 1
                 /\ last'.returned = << r.result >>
                 /\ threejs_skeleton' = r.bones
                 /\ undo_stack' = r.undo
                 /\ redo_stack' = r.redo
      ]_vars

\* a click on the undo button that undid one edit of two, after the step was
\* begun a second time
C37_Witness ==
    /\ last.op = "click"
    /\ ui.begins = 2
    /\ last.arg = << "undo" >>
    /\ last.returned = << TRUE >>
    /\ ui.added_event_listeners
    /\ Len(undo_stack) = 1
    /\ Len(redo_stack) = 1

\* C33: get_rest_pose_rotation_corrections() leaves every bone's local
\* position, rotation and scale as they were before the call (the edited
\* pose), and leaves the undo stack, the redo stack and the stored original
\* rest pose alone; before any skeleton is loaded it returns an empty map and
\* touches nothing
C33_CorrectionsLeaveNoTrace ==
    [][ last'.op = "get_rest_pose_rotation_corrections" =>
          /\ Transforms(threejs_skeleton') = Transforms(threejs_skeleton)
          /\ threejs_skeleton' = threejs_skeleton
          /\ undo_stack' = undo_stack
          /\ redo_stack' = redo_stack
          /\ original_bone_transforms' = original_bone_transforms
          /\ skeleton_id = 0 =>
               /\ last'.returned = << { } >>
               /\ UNCHANGED edit_vars
      ]_vars

\* corrections were computed for a stored and then edited pose that differs
\* from the rest pose
C33_Witness ==
    /\ last.op = "get_rest_pose_rotation_corrections"
    /\ last.returned # << { } >>
    /\ Transforms(threejs_skeleton) # original_bone_transforms
    /\ undo_stack # << >>

\* C34: the original rest pose is captured by load_original_armature_from_model
\* as the transforms of the skeleton it builds, and no snap, mirror edit,
\* store, undo, redo or correction computation changes it afterwards: only the
\* next load replaces it
C34_RestPoseSnapshotIsKept ==
    [][ /\ last'.op = "load" =>
             original_bone_transforms' = Transforms(threejs_skeleton')
        /\ last'.op # "load" =>
             original_bone_transforms' = original_bone_transforms
        /\ skeleton_id' > 0 =>
             \E k \in Armatures :
               original_bone_transforms' = Transforms(ArmatureBones(k))
      ]_vars

\* the corrections were computed after a snap drag left the skeleton away from
\* its rest pose, and the snapshot is still that of the loaded armature
C34_Witness ==
    /\ last.op = "get_rest_pose_rotation_corrections"
    /\ currently_selected_bone # NoBone
    /\ ~is_dragging
    /\ undo_stack # << >>
    /\ Transforms(threejs_skeleton) # original_bone_transforms
    /\ original_bone_transforms = Transforms(ArmatureBones(1))

\* C35: one undo after a snap drag made with mirror mode enabled puts every
\* bone, the dragged bone and its mirror counterpart included, back to its
\* transform at mouse-down, and the redo that follows puts every bone back to
\* its transform at the end of the drag
C35_UndoOfAMirroredDrag ==
    [][ /\ ( last'.op = "undo" /\ drag_log.phase = "up" /\ mirror_mode_enabled ) =>
             /\ last'.returned = << TRUE >>
             /\ threejs_skeleton' = drag_log.pose
             /\ Top(redo_stack').transforms = Transforms(threejs_skeleton)
        /\ ( last.op = "undo" /\ last.returned = << TRUE >> /\ last'.op = "redo" ) =>
             /\ last'.returned = << TRUE >>
             /\ Transforms(threejs_skeleton') = Top(redo_stack).transforms
      ]_vars

\* a redo has put the dragged bone and its counterpart back where the drag
\* had left them, away from their positions at mouse-down
C35_Witness ==
    /\ last.op = "redo"
    /\ last.returned = << TRUE >>
    /\ mirror_mode_enabled
    /\ currently_selected_bone # NoBone
    /\ undo_stack # << >>
    /\ Cardinality({ i \in BoneIndices :
                       threejs_skeleton[i].position
                         # Top(undo_stack).transforms[i].position }) = 2

\* C36: the orbit controls are disabled exactly while is_dragging is true: a
\* mouse-down that starts a drag disables them, every mouse-up enables them,
\* and no event leaves them disabled while no drag is in progress
C36_ControlsFollowTheDrag ==
    [][ /\ controls_enabled' <=> ~ is_dragging'
        /\ ( last'.op = "mouse_down" /\ last'.returned = << TRUE >> ) =>
             ~ controls_enabled'
        /\ last'.op = "mouse_up" => controls_enabled'
      ]_vars

\* a mouse-up has ended a drag and enabled the controls again
C36_Witness ==
    /\ last.op = "mouse_up"
    /\ drag_log.phase = "up"
    /\ controls_enabled
    /\ ~ is_dragging

\* C38: after every storeSkeletonFromBVH, getSkeleton, removeSkeleton and
\* clearAll every id of the skeleton cache is the id of an entry of the
\* persistent storage, and a storeSkeletonFromBVH that fails, on a text that
\* does not parse or on a storage write that fails, adds nothing to the cache
\* and nothing to the storage
C38_CacheIsWithinStorage ==
    [][ /\ \A c \in skeleton_storage'.skeletonCache :
             \E j \in 1 .. Len(skeleton_storage'.localStorage) :
               skeleton_storage'.localStorage[j].id = c.id
        /\ ( last'.op = "storeSkeletonFromBVH" /\ last'.returned = << >> ) =>
             skeleton_storage' = skeleton_storage
      ]_vars

\* a store failed on the storage write while the cache held an earlier skeleton
C38_Witness ==
    /\ last.op = "storeSkeletonFromBVH"
    /\ last.returned = << >>
    /\ last.arg[2] = BVHText(2, "")
    /\ last.events = << Error("Failed to save skeleton. Storage may be full.") >>
    /\ skeleton_storage.skeletonCache # { }
    /\ Len(skeleton_storage.localStorage) = 1

====
